---- MODULE Spec2Model ----
(***************************************************************************)
(* A model of readableSQL's formatting core (src/SQLFormatter.py).         *)
(*                                                                         *)
(* A Python str is a sequence of one-character strings; a list of str is a *)
(* sequence of such sequences.  Every regular expression of the source is  *)
(* written out as a matcher over character sequences with the same         *)
(* leftmost / greedy / lazy semantics as Python's re module.               *)
(***************************************************************************)
EXTENDS Integers, Sequences, FiniteSets, TLC

VARIABLES
    pc,                   \* position of the running call
    out,                  \* the value the call returned, or the exception it raised
    s,                    \* smart_split_csv: the argument
    tokens,               \* the token list s was joined from (round trip)
    pos,                  \* smart_split_csv: index of the next character of the for loop
    scan,                 \* smart_split_csv: the locals of the loop
    split_at,             \* history: the indices of s at which the loop has split
    arg_sql,              \* format_all, format_insert_values_block: the argument sql
    arg_pretty_json,      \* format_all: the argument pretty_json
    loc_parts,            \* format_all: the local parts
    loc_index,            \* format_all: index in parts of the for loop
    loc_part_content,     \* format_all: the local part_content
    loc_handler_name,     \* format_all: the local handler_name
    loc_formatted_blocks, \* format_all: the local formatted_blocks
    stmt_cols,            \* the column names arg_sql was written from
    stmt_rows,            \* the rows of values arg_sql was written from
    stmt_parts,           \* the assignments, lines, actions or words arg_sql was written from
    stmt_where,           \* the WHERE condition arg_sql was written with, or the empty str
    loc_stmt,             \* _format_embedded_json: the local stmt
    loc_offset,           \* _format_embedded_json: the local offset, as an index from 1
    loc_match,            \* what pattern.search found: the match and the object after it
    loc_pretty_end,       \* history: index of the last character substituted, or 0
    filter_input,         \* gui: the text of the filter line edit
    input_text,           \* gui: the text of the input editor
    json_checkbox,        \* gui: the pretty-JSON checkbox is checked
    output_text,          \* gui: the text of the output editor
    error_label_text,     \* gui: the text of the error label
    error_label_visible,  \* gui: the error label is visible
    last_call,            \* history: how the last format_sql_from_input call ended
    format_all_calls,     \* history: the arguments of the format_all calls of the last call
    sys_modules,          \* bootstrap: what importing each module does
    pip_install,          \* bootstrap: what the pip subprocess does
    loc_module_name,      \* safe_import: the argument module_name
    import_attempts,      \* history: import_module calls of the running safe_import
    install_calls,        \* history: install_requirements calls of the running safe_import
    exit_code,            \* the argument of sys.exit, or -1 while the process runs
    returned_modules      \* history: the modules safe_import has returned

csv_vars == <<s, tokens, pos, scan, split_at>>

format_all_vars == <<arg_pretty_json, loc_parts, loc_index, loc_part_content,
                     loc_handler_name, loc_formatted_blocks>>

stmt_vars == <<stmt_cols, stmt_rows, stmt_parts, stmt_where>>

json_vars == <<loc_stmt, loc_offset, loc_match, loc_pretty_end>>

gui_vars == <<filter_input, input_text, json_checkbox, output_text, error_label_text,
              error_label_visible, last_call, format_all_calls>>

boot_vars == <<sys_modules, pip_install, loc_module_name, import_attempts, install_calls,
               exit_code, returned_modules>>

app_vars == <<json_vars, gui_vars, boot_vars>>

vars == <<pc, out, csv_vars, arg_sql, format_all_vars, stmt_vars, app_vars>>

\* the values of the variables of the calls that are not running
csv_idle ==
    s = <<>> /\ tokens = <<>> /\ pos = 0 /\ scan = <<>> /\ split_at = {}

format_all_idle ==
    /\ arg_pretty_json = FALSE /\ loc_parts = <<>> /\ loc_index = 0
    /\ loc_part_content = <<>> /\ loc_handler_name = "None" /\ loc_formatted_blocks = <<>>

stmt_idle ==
    stmt_cols = <<>> /\ stmt_rows = <<>> /\ stmt_parts = <<>> /\ stmt_where = <<>>

json_idle ==
    loc_stmt = <<>> /\ loc_offset = 0 /\ loc_match = <<>> /\ loc_pretty_end = 0

gui_idle ==
    /\ filter_input = <<>> /\ input_text = <<>> /\ json_checkbox = FALSE
    /\ output_text = <<>> /\ error_label_text = <<>> /\ error_label_visible = FALSE
    /\ last_call = "None" /\ format_all_calls = <<>>

boot_idle ==
    /\ sys_modules = <<>> /\ pip_install = "None" /\ loc_module_name = "None"
    /\ import_attempts = 0 /\ install_calls = 0 /\ exit_code = -1
    /\ returned_modules = {}

app_idle == json_idle /\ gui_idle /\ boot_idle

(***************************************************************************)
(* Bounds of the model.                                                    *)
(***************************************************************************)
MaxLen == 4            \* longest argument of smart_split_csv
MaxFragments == 2      \* most statements in an argument of format_all
MaxCols == 2           \* most columns of a generated INSERT ... VALUES
MaxRows == 2           \* most rows of a generated INSERT ... VALUES
MaxValues == 2         \* most values in a row of a generated INSERT ... VALUES
MaxParts == 3          \* most assignments, lines or actions of a generated statement
MaxWords == 4          \* most words of a generated argument of format_case_expression

RECURSIVE call(_, _)

(***************************************************************************)
(* Characters and str helpers.                                             *)
(***************************************************************************)
Whitespace == {" ", "\t", "\n", "\r", "\f"}

IsSpace(c) == c \in Whitespace

Min(S) == CHOOSE x \in S : \A y \in S : x <= y

Max(S) == CHOOSE x \in S : \A y \in S : x >= y

\* s[i:] of Python, with the 1-based index i of the first character kept
From(str, i) == SubSeq(str, i, Len(str))

\* str.lstrip(), str.rstrip() and str.strip() without arguments
lstrip(str) ==
    LET ns == {i \in 1..Len(str) : ~IsSpace(str[i])}
    IN  IF ns = {} THEN <<>> ELSE From(str, Min(ns))

rstrip(str) ==
    LET ns == {i \in 1..Len(str) : ~IsSpace(str[i])}
    IN  IF ns = {} THEN <<>> ELSE SubSeq(str, 1, Max(ns))

strip(str) == call("rstrip", <<call("lstrip", <<str>>)>>)

\* sep.join(list)
RECURSIVE join(_, _)
join(sep, list) ==
    IF list = <<>> THEN <<>>
    ELSE IF Len(list) = 1 THEN list[1]
    ELSE list[1] \o sep \o call("join", <<sep, Tail(list)>>)

\* [p for p in list if p]
RECURSIVE NonEmpty(_)
NonEmpty(list) ==
    IF list = <<>> THEN <<>>
    ELSE IF list[1] = <<>> THEN NonEmpty(Tail(list))
    ELSE <<list[1]>> \o NonEmpty(Tail(list))

\* the characters of the regular expression class \w (ASCII)
LowerCase == <<"a", "b", "c", "d", "e", "f", "g", "h", "i", "j", "k", "l", "m",
               "n", "o", "p", "q", "r", "s", "t", "u", "v", "w", "x", "y", "z">>

UpperCase == <<"A", "B", "C", "D", "E", "F", "G", "H", "I", "J", "K", "L", "M",
               "N", "O", "P", "Q", "R", "S", "T", "U", "V", "W", "X", "Y", "Z">>

Digits == <<"0", "1", "2", "3", "4", "5", "6", "7", "8", "9">>

Range(f) == {f[i] : i \in DOMAIN f}

WordChars == Range(LowerCase) \cup Range(UpperCase) \cup Range(Digits) \cup {"_"}

IsWordChar(c) == c \in WordChars

\* str.upper() on one character, and on a str
UpperOf == [c \in Range(LowerCase) |-> UpperCase[CHOOSE i \in 1..26 : LowerCase[i] = c]]

upper_char(c) == IF c \in DOMAIN UpperOf THEN UpperOf[c] ELSE c

upper(str) == [i \in 1..Len(str) |-> upper_char(str[i])]

\* the literal lit matches str at index i (re without / with IGNORECASE)
LitAt(str, i, lit) ==
    /\ i >= 1
    /\ i + Len(lit) - 1 <= Len(str)
    /\ \A k \in 1..Len(lit) : str[i + k - 1] = lit[k]

LitAtI(str, i, lit) ==
    /\ i >= 1
    /\ i + Len(lit) - 1 <= Len(str)
    /\ \A k \in 1..Len(lit) : upper_char(str[i + k - 1]) = upper_char(lit[k])

\* str.startswith(lit), str.endswith(lit)
startswith(str, lit) == LitAt(str, 1, lit)

endswith(str, lit) == LitAt(str, Len(str) - Len(lit) + 1, lit)

\* the index after the longest run of whitespace that starts at i (greedy \s*)
SkipWs(str, i) ==
    Min({j \in i..Len(str) : ~IsSpace(str[j])} \cup {Len(str) + 1})

\* the index after the longest run of [^\s(] that starts at i
SkipName(str, i) ==
    Min({j \in i..Len(str) : IsSpace(str[j]) \/ str[j] = "("} \cup {Len(str) + 1})

\* \b at index i: between str[i-1] and str[i]
WordBoundary(str, i) ==
    LET before == i - 1 >= 1 /\ i - 1 <= Len(str) /\ IsWordChar(str[i - 1])
        after  == i >= 1 /\ i <= Len(str) /\ IsWordChar(str[i])
    IN  before # after

\* piece(lo) \o ... \o piece(hi)
RECURSIVE FlatMap(_, _, _)
FlatMap(piece(_), lo, hi) ==
    IF lo > hi THEN <<>>
    ELSE IF lo = hi THEN piece(lo)
    ELSE LET mid == (lo + hi) \div 2
         IN  FlatMap(piece, lo, mid) \o FlatMap(piece, mid + 1, hi)

\* the least index of a set of indices, 0 when there is none
First(S) == IF S = {} THEN 0 ELSE Min(S)

\* ' ' * n
RECURSIVE Spaces(_)
Spaces(n) == IF n <= 0 THEN <<>> ELSE <<" ">> \o Spaces(n - 1)

\* str(n) for an int n >= 0
RECURSIVE str_of_int(_)
str_of_int(n) ==
    IF n < 10 THEN <<Digits[n + 1]>>
    ELSE call("str_of_int", <<n \div 10>>) \o <<Digits[(n % 10) + 1]>>

\* str.split(sep) for a one-character sep
RECURSIVE split_char(_, _)
split_char(str, sep) ==
    LET i == First({j \in 1..Len(str) : str[j] = sep})
    IN  IF i = 0 THEN <<str>>
        ELSE <<SubSeq(str, 1, i - 1)>> \o call("split_char", <<From(str, i + 1), sep>>)

\* [x.strip() for x in list]
strip_each(list) == [i \in 1..Len(list) |-> call("strip", <<list[i]>>)]

\* U+274C, the mark that opens every diagnostic
CrossMark == "(x)"

\* the value of a call that ends by raising IndexError
IndexError == <<"IndexError">>

(***************************************************************************)
(* smart_split_csv (src/SQLFormatter.py:583-623).                          *)
(***************************************************************************)
\* the locals before the for loop
scan_init ==
    [parts |-> <<>>, current_chars |-> <<>>, in_single_quotes |-> FALSE,
     escape_next_char |-> FALSE, parentheses_level |-> 0]

\* the parenthesis bookkeeping of the loop body, outside quotes
paren_level(level, char) ==
    IF char = "(" THEN level + 1
    ELSE IF char = ")" /\ level > 0 THEN level - 1
    ELSE level

\* scan_char without the test of the parenthesis depth at a comma
scan_char_any_depth(st, char) ==
    IF st.escape_next_char THEN
        [st EXCEPT !.current_chars = Append(@, char), !.escape_next_char = FALSE]
    ELSE IF char = "\\" THEN
        [st EXCEPT !.current_chars = Append(@, char), !.escape_next_char = TRUE]
    ELSE IF char = "'" THEN
        [st EXCEPT !.in_single_quotes = ~@, !.current_chars = Append(@, char)]
    ELSE IF ~st.in_single_quotes THEN
        LET level == paren_level(st.parentheses_level, char)
        IN  IF char = "," THEN
                [st EXCEPT !.parentheses_level = level,
                           !.parts = Append(@, call("strip", <<st.current_chars>>)),
                           !.current_chars = <<>>]
            ELSE
                [st EXCEPT !.parentheses_level = level,
                           !.current_chars = Append(@, char)]
    ELSE
        [st EXCEPT !.current_chars = Append(@, char)]

\* one iteration of the for loop over the characters of s
scan_char(st, char) ==
    IF st.escape_next_char THEN
        [st EXCEPT !.current_chars = Append(@, char), !.escape_next_char = FALSE]
    ELSE IF char = "\\" THEN
        [st EXCEPT !.current_chars = Append(@, char), !.escape_next_char = TRUE]
    ELSE IF char = "'" THEN
        [st EXCEPT !.in_single_quotes = ~@, !.current_chars = Append(@, char)]
    ELSE IF ~st.in_single_quotes THEN
        LET level == paren_level(st.parentheses_level, char)
        IN  IF char = "," /\ level = 0 THEN
                [st EXCEPT !.parentheses_level = level,
                           !.parts = Append(@, call("strip", <<st.current_chars>>)),
                           !.current_chars = <<>>]
            ELSE
                [st EXCEPT !.parentheses_level = level,
                           !.current_chars = Append(@, char)]
    ELSE
        [st EXCEPT !.current_chars = Append(@, char)]

\* scan_finish without the strip() of the last token
scan_finish_no_strip(st, str) ==
    LET parts == IF st.current_chars # <<>> \/ (st.parts = <<>> /\ call("strip", <<str>>) # <<>>)
                 THEN Append(st.parts, st.current_chars)
                 ELSE st.parts
    IN  NonEmpty(parts)

\* the statements after the loop: the last token, and the filter of empty tokens
scan_finish(st, str) ==
    LET parts == IF st.current_chars # <<>> \/ (st.parts = <<>> /\ call("strip", <<str>>) # <<>>)
                 THEN Append(st.parts, call("strip", <<st.current_chars>>))
                 ELSE st.parts
    IN  NonEmpty(parts)

RECURSIVE scan_from(_, _, _)
scan_from(st, str, i) ==
    IF i > Len(str) THEN st ELSE call("scan_from", <<call("scan_char", <<st, str[i]>>), str, i + 1>>)

smart_split_csv(str) == call("scan_finish", <<call("scan_from", <<scan_init, str, 1>>), str>>)

L_INSERT == <<"I", "N", "S", "E", "R", "T">>

L_INTO == <<"I", "N", "T", "O">>

L_VALUES == <<"V", "A", "L", "U", "E", "S">>

L_INSERT_INTO_ == <<"I", "N", "S", "E", "R", "T", " ", "I", "N", "T", "O", " ">>

L_close_VALUES == <<")", " ", "V", "A", "L", "U", "E", "S">>

L_comment_ == <<"-", "-", " ">>

INDENT_1 == <<" ", " ", " ", " ">>

INDENT_2 == <<" ", " ">>

L_err_columns_not_found == <<"(x)", " ", "I", "n", "v", "a", "l", "i", "d", " ", "I", "N", "S", "E", "R", "T", " ", "s", "t", "a", "t", "e", "m", "e", "n", "t", " ", "s", "t", "r", "u", "c", "t", "u", "r", "e", " ", "(", "c", "o", "l", "u", "m", "n", "s", " ", "n", "o", "t", " ", "f", "o", "u", "n", "d", ")", ".">>

L_err_values_not_found == <<"(x)", " ", "V", "A", "L", "U", "E", "S", " ", "c", "l", "a", "u", "s", "e", " ", "n", "o", "t", " ", "f", "o", "u", "n", "d", ".">>

L_err_structure == <<"(x)", " ", "I", "n", "v", "a", "l", "i", "d", " ", "I", "N", "S", "E", "R", "T", " ", "s", "t", "a", "t", "e", "m", "e", "n", "t", " ", "s", "t", "r", "u", "c", "t", "u", "r", "e", ".", " ", "C", "o", "u", "l", "d", " ", "n", "o", "t", " ", "i", "d", "e", "n", "t", "i", "f", "y", " ", "t", "a", "b", "l", "e", ",", " ", "c", "o", "l", "u", "m", "n", "s", ",", " ", "o", "r", " ", "V", "A", "L", "U", "E", "S", " ", "c", "l", "a", "u", "s", "e", ".">>

L_err_rows == <<"(x)", " ", "E", "r", "r", "o", "r", " ", "p", "a", "r", "s", "i", "n", "g", " ", "r", "o", "w", "s", " ", "i", "n", " ", "V", "A", "L", "U", "E", "S", ".", " ", "E", "n", "s", "u", "r", "e", " ", "r", "o", "w", "s", " ", "a", "r", "e", " ", "c", "o", "r", "r", "e", "c", "t", "l", "y", " ", "p", "a", "r", "e", "n", "t", "h", "e", "s", "i", "z", "e", "d", " ", "a", "n", "d", " ", "s", "e", "p", "a", "r", "a", "t", "e", "d", " ", "b", "y", " ", "c", "o", "m", "m", "a", "s", " ", "(", "e", ".", "g", ".", ",", " ", "V", "A", "L", "U", "E", "S", " ", "(", "r", "1", "v", "1", ",", " ", "r", "1", "v", "2", ")", ",", " ", "(", "r", "2", "v", "1", ",", " ", "r", "2", "v", "2", ")", ")", ".">>

L_err_mismatch_table == <<"(x)", " ", "M", "i", "s", "m", "a", "t", "c", "h", " ", "f", "o", "r", " ", "t", "a", "b", "l", "e", " ", "'">>

L_err_no_rows == <<"(x)", " ", "N", "o", " ", "v", "a", "l", "u", "e", " ", "r", "o", "w", "s", " ", "f", "o", "u", "n", "d", " ", "i", "n", " ", "V", "A", "L", "U", "E", "S", " ", "c", "l", "a", "u", "s", "e", " ", "f", "o", "r", " ", "t", "a", "b", "l", "e", " ", "'">>

L_err_mismatch_row == <<"(x)", " ", "M", "i", "s", "m", "a", "t", "c", "h", " ", "i", "n", " ", "r", "o", "w", " ">>

L__for_table_ == <<" ", "f", "o", "r", " ", "t", "a", "b", "l", "e", " ", "'">>

L_columns_open == <<" ", "c", "o", "l", "u", "m", "n", "s", " ", "(">>

L_defined_empty == <<")", " ", "d", "e", "f", "i", "n", "e", "d", ",", " ", "b", "u", "t", " ", "V", "A", "L", "U", "E", "S", " ", "c", "l", "a", "u", "s", "e", " ", "i", "s", " ", "e", "m", "p", "t", "y", " ", "'", "(", ")", "'", ".">>

L_values_empty_but == <<"'", ":", " ", "V", "a", "l", "u", "e", "s", " ", "a", "r", "e", " ", "e", "m", "p", "t", "y", ",", " ", "b", "u", "t", " ">>

L_columns_defined == <<" ", "c", "o", "l", "u", "m", "n", "s", " ", "a", "r", "e", " ", "d", "e", "f", "i", "n", "e", "d", ":", " ">>

L_expected == <<"'", ":", "\n", " ", " ", " ", " ", "E", "x", "p", "e", "c", "t", "e", "d", " ">>

L_values_for_columns == <<" ", "v", "a", "l", "u", "e", "s", " ", "f", "o", "r", " ", "c", "o", "l", "u", "m", "n", "s", ":", " ">>

L_but_found == <<"\n", " ", " ", " ", " ", "B", "u", "t", " ", "f", "o", "u", "n", "d", " ">>

L_values_ == <<" ", "v", "a", "l", "u", "e", "s", ":", " ">>

(***************************************************************************)
(* format_insert_values_block (src/SQLFormatter.py:98-225).                *)
(***************************************************************************)
NoMatch == [ok |-> FALSE, from |-> 0, to |-> 0]

\* INSERT\s+INTO\s+([^\s(]+) matched at index i, IGNORECASE; the group is
\* str[from .. to - 1]
insert_into_at(str, i) ==
    IF ~LitAtI(str, i, L_INSERT) THEN NoMatch
    ELSE LET a == i + Len(L_INSERT)
             b == SkipWs(str, a)
         IN  IF b = a \/ ~LitAtI(str, b, L_INTO) THEN NoMatch
             ELSE LET c == b + Len(L_INTO)
                      d == SkipWs(str, c)
                      e == SkipName(str, d)
                  IN  IF d = c \/ e = d THEN NoMatch
                      ELSE [ok |-> TRUE, from |-> d, to |-> e]

\* table_m = re.search(r"INSERT\s+INTO\s+([^\s(]+)", sql, re.IGNORECASE)
table_m(sql) ==
    LET i == First({j \in 1..Len(sql) : call("insert_into_at", <<sql, j>>).ok})
    IN  IF i = 0 THEN NoMatch ELSE call("insert_into_at", <<sql, i>>)

\* INSERT\s+INTO\s+[^\s(]+\s*\((.*?)\)\s*<keyword> matched at index i, with
\* DOTALL and IGNORECASE; the group is str[from .. to - 1]
insert_columns_at(str, i, keyword) ==
    LET m == call("insert_into_at", <<str, i>>)
    IN  IF ~m.ok THEN NoMatch
        ELSE LET f == SkipWs(str, m.to)
             IN  IF ~LitAt(str, f, <<"(">>) THEN NoMatch
                 ELSE LET j == First({k \in (f + 1)..Len(str) :
                                        /\ str[k] = ")"
                                        /\ LitAtI(str, SkipWs(str, k + 1), keyword)})
                      IN  IF j = 0 THEN NoMatch
                          ELSE [ok |-> TRUE, from |-> f + 1, to |-> j]

\* cols_m = re.search(r"INSERT\s+INTO\s+[^\s(]+\s*\((.*?)\)\s*VALUES", sql, ...)
cols_m(sql) ==
    LET i == First({j \in 1..Len(sql) : call("insert_columns_at", <<sql, j, L_VALUES>>).ok})
    IN  IF i = 0 THEN NoMatch ELSE call("insert_columns_at", <<sql, i, L_VALUES>>)

\* \)\s*VALUES\s*([\s\S]+?); matched at index i; \s* gives back one
\* character when the group would otherwise be empty
values_block_at(str, i) ==
    IF ~LitAt(str, i, <<")">>) THEN NoMatch
    ELSE LET v == SkipWs(str, i + 1)
         IN  IF ~LitAtI(str, v, L_VALUES) THEN NoMatch
             ELSE LET w0 == v + Len(L_VALUES)
                      w  == SkipWs(str, w0)
                      j  == First({k \in (w + 1)..Len(str) : str[k] = ";"})
                  IN  IF j # 0 THEN [ok |-> TRUE, from |-> w, to |-> j]
                      ELSE IF w > w0 /\ LitAt(str, w, <<";">>)
                           THEN [ok |-> TRUE, from |-> w - 1, to |-> w]
                      ELSE NoMatch

\* values_block_m = re.search(r"\)\s*VALUES\s*([\s\S]+?);", sql, ...)
values_block_m(sql) ==
    LET i == First({j \in 1..Len(sql) : call("values_block_at", <<sql, j>>).ok})
    IN  IF i = 0 THEN NoMatch ELSE call("values_block_at", <<sql, i>>)

group1(str, m) == SubSeq(str, m.from, m.to - 1)

\* re.sub(r"/\*.*?\*/", "", str, flags=re.DOTALL)
RECURSIVE remove_block_comments(_)
remove_block_comments(str) ==
    LET i == First({k \in 1..Len(str) : LitAt(str, k, <<"/", "*">>)})
        j == IF i = 0 THEN 0
             ELSE First({k \in (i + 2)..Len(str) : LitAt(str, k, <<"*", "/">>)})
    IN  IF j = 0 THEN str
        ELSE SubSeq(str, 1, i - 1) \o call("remove_block_comments", <<From(str, j + 2)>>)

\* \)\s*,\s*\( matched at index i: the index of its "(", or 0
row_separator_at(str, i) ==
    IF ~LitAt(str, i, <<")">>) THEN 0
    ELSE LET a == SkipWs(str, i + 1)
         IN  IF ~LitAt(str, a, <<",">>) THEN 0
             ELSE LET b == SkipWs(str, a + 1)
                  IN  IF LitAt(str, b, <<"(">>) THEN b ELSE 0

\* re.sub(r"\)\s*,\s*\(", ")<ROW_DELIMITER_TEMP_VALS>(", str) followed by
\* split("<ROW_DELIMITER_TEMP_VALS>"), for str without the delimiter text
RECURSIVE row_parts_with_parens(_)
row_parts_with_parens(str) ==
    LET i == First({k \in 1..Len(str) : call("row_separator_at", <<str, k>>) # 0})
    IN  IF i = 0 THEN <<str>>
        ELSE <<SubSeq(str, 1, i)>>
                 \o call("row_parts_with_parens", <<From(str, call("row_separator_at", <<str, i>>))>>)

\* the loop of lines 144-154: the contents of the rows, or the diagnostic
RECURSIVE individual_rows(_, _)
individual_rows(row_parts, acc) ==
    IF row_parts = <<>> THEN [returned |-> FALSE, value |-> acc]
    ELSE LET row_part_stripped == call("strip", <<row_parts[1]>>)
         IN  IF startswith(row_part_stripped, <<"(">>) /\ endswith(row_part_stripped, <<")">>)
             THEN call("individual_rows", <<Tail(row_parts),
                      Append(acc, call("strip", <<SubSeq(row_part_stripped, 2,
                                               Len(row_part_stripped) - 1)>>))>>)
             ELSE IF row_part_stripped = <<>>
             THEN call("individual_rows", <<Tail(row_parts), acc>>)
             ELSE [returned |-> TRUE, value |-> L_err_rows]

\* re.sub(r"\s*\n\s*", " ", str): a run of whitespace with a newline in it
\* becomes one space
collapse_newline_runs(str) ==
    LET run_start(i) == Max({k \in 1..i : ~IsSpace(str[k])} \cup {0}) + 1
        has_newline(i) == \E k \in run_start(i)..(SkipWs(str, i) - 1) : str[k] = "\n"
        piece(i) == IF ~IsSpace(str[i]) \/ ~has_newline(i) THEN <<str[i]>>
                    ELSE IF i = run_start(i) THEN <<" ">>
                    ELSE <<>>
    IN  FlatMap(piece, 1, Len(str))

\* vals[i] + ("," if i < len(vals) - 1 else "")
with_commas(vals) ==
    [i \in 1..Len(vals) |-> IF i < Len(vals) THEN Append(vals[i], ",") ELSE vals[i]]

\* the lines of one value row (lines 204-218), given its opening line
value_lines(cols, vals_for_this_row) ==
    LET val_comma_for_this_row == call("with_commas", <<vals_for_this_row>>)
        max_len_for_this_row ==
            IF val_comma_for_this_row = <<>> THEN 0
            ELSE Max({Len(val_comma_for_this_row[i]) : i \in 1..Len(val_comma_for_this_row)})
        inner_indent == INDENT_1 \o INDENT_1
    IN  [v_idx \in 1..Len(val_comma_for_this_row) |->
            LET v_with_comma == val_comma_for_this_row[v_idx]
                col_name == IF v_idx <= Len(cols) THEN cols[v_idx] ELSE IndexError
                pad0 == max_len_for_this_row - Len(v_with_comma)
                pad1 == IF ~endswith(v_with_comma, <<",">>) THEN pad0 + 1 ELSE pad0
                pad_val == IF pad1 > 0 THEN pad1 ELSE 0
            IN  IF col_name = IndexError THEN IndexError
                ELSE inner_indent \o v_with_comma \o Spaces(pad_val + 1)
                         \o L_comment_ \o col_name]

\* the line that opens a row (lines 199-202)
row_open(row_idx) ==
    IF row_idx = 0 THEN INDENT_1 \o <<"(">> ELSE INDENT_1 \o <<",", "(">>

\* one iteration of the loop over the rows (lines 175-220): the lines so far,
\* or the value the function returns from inside the loop
format_row(row_idx, row_values_str_content, cols, table_name, output_lines) ==
    LET normalized_row_values_str == call("collapse_newline_runs", <<call("strip", <<row_values_str_content>>)>>)
        vals_for_this_row == call("smart_split_csv", <<normalized_row_values_str>>)
    IN  IF vals_for_this_row = <<>> /\ cols = <<>> THEN
            [returned |-> FALSE,
             value |-> output_lines \o <<call("row_open", <<row_idx>>), INDENT_1 \o <<")">>>>]
        ELSE IF vals_for_this_row = <<>> /\ cols # <<>> THEN
            [returned |-> TRUE,
             value |-> L_err_mismatch_row \o call("str_of_int", <<row_idx + 1>>) \o L__for_table_
                       \o table_name \o L_values_empty_but \o call("str_of_int", <<Len(cols)>>)
                       \o L_columns_defined \o call("join", <<<<",", " ">>, cols>>) \o <<".">>]
        ELSE IF Len(cols) # Len(vals_for_this_row) THEN
            [returned |-> TRUE,
             value |-> L_err_mismatch_row \o call("str_of_int", <<row_idx + 1>>) \o L__for_table_
                       \o table_name \o L_expected \o call("str_of_int", <<Len(cols)>>)
                       \o L_values_for_columns \o call("join", <<<<",", " ">>, cols>>)
                       \o L_but_found \o call("str_of_int", <<Len(vals_for_this_row)>>)
                       \o L_values_ \o call("join", <<<<",", " ">>, vals_for_this_row>>)]
        ELSE LET lines == call("value_lines", <<cols, vals_for_this_row>>)
             IN  IF \E i \in 1..Len(lines) : lines[i] = IndexError
                 THEN [returned |-> TRUE, value |-> IndexError]
                 ELSE [returned |-> FALSE,
                       value |-> output_lines \o <<call("row_open", <<row_idx>>)>> \o lines
                                 \o <<INDENT_1 \o <<")">>>>]

RECURSIVE format_rows(_, _, _, _, _)
format_rows(rows, row_idx, cols, table_name, output_lines) ==
    IF row_idx >= Len(rows) THEN [returned |-> FALSE, value |-> output_lines]
    ELSE LET one == call("format_row", <<row_idx, rows[row_idx + 1], cols, table_name, output_lines>>)
         IN  IF one.returned THEN one
             ELSE call("format_rows", <<rows, row_idx + 1, cols, table_name, one.value>>)

\* the header lines (lines 168-173)
insert_header(table_name, cols, keyword_line) ==
    <<L_INSERT_INTO_ \o table_name \o <<" ", "(">>>>
    \o [i \in 1..Len(cols) |->
            INDENT_1 \o cols[i] \o (IF i < Len(cols) THEN <<",">> ELSE <<>>)]
    \o <<keyword_line>>

\* lines 222-223
close_last_line(output_lines) ==
    IF output_lines # <<>> /\ ~endswith(output_lines[Len(output_lines)], <<";">>)
    THEN [output_lines EXCEPT ![Len(output_lines)] = Append(@, ";")]
    ELSE output_lines

format_insert_values_block(sql) ==
    LET tm == call("table_m", <<sql>>)
        cm == call("cols_m", <<sql>>)
        vm == call("values_block_m", <<sql>>)
    IN  IF ~cm.ok THEN L_err_columns_not_found
        ELSE IF ~vm.ok THEN L_err_values_not_found
        ELSE IF ~tm.ok \/ ~cm.ok \/ ~vm.ok THEN L_err_structure
        ELSE
        LET table_name == group1(sql, tm)
            cols_str == group1(sql, cm)
            cols == call("strip_each", <<call("split_char", <<cols_str, ",">>)>>)
            values_content_raw == call("remove_block_comments", <<call("strip", <<group1(sql, vm)>>)>>)
            rows == call("individual_rows", <<call("row_parts_with_parens", <<values_content_raw>>), <<>>>>)
        IN  IF rows.returned THEN rows.value
            ELSE IF rows.value = <<>> THEN
                IF values_content_raw = <<"(", ")">> THEN
                    IF cols = <<>> THEN
                        L_INSERT_INTO_ \o table_name \o <<"\n">> \o L_VALUES
                            \o <<" ", "(", ")", ";">>
                    ELSE L_err_mismatch_table \o table_name \o <<"'", ":", " ">>
                             \o call("str_of_int", <<Len(cols)>>) \o L_columns_open
                             \o call("join", <<<<",", " ">>, cols>>) \o L_defined_empty
                ELSE L_err_no_rows \o table_name \o <<"'", ".">>
            ELSE
            LET header == call("insert_header", <<table_name, cols, L_close_VALUES>>)
                body == call("format_rows", <<rows.value, 0, cols, table_name, header>>)
            IN  IF body.returned THEN body.value
                ELSE call("join", <<<<"\n">>, call("close_last_line", <<body.value>>)>>)

L_CASE == <<"C", "A", "S", "E">>

L_END == <<"E", "N", "D">>

L_WHEN == <<"W", "H", "E", "N">>

L_THEN == <<"T", "H", "E", "N">>

L_ELSE == <<"E", "L", "S", "E">>

L_IN == <<"I", "N">>

L_UPDATE == <<"U", "P", "D", "A", "T", "E">>

L_SET == <<"S", "E", "T">>

L_WHERE == <<"W", "H", "E", "R", "E">>

L_indent_WHEN_ == <<" ", " ", " ", " ", "W", "H", "E", "N", " ">>

L__THEN_ == <<" ", "T", "H", "E", "N", " ">>

L_indent_close_THEN_ == <<" ", " ", " ", " ", ")", " ", "T", "H", "E", "N", " ">>

L_indent_ELSE_ == <<" ", " ", " ", " ", "E", "L", "S", "E", " ">>

L_indent8 == <<" ", " ", " ", " ", " ", " ", " ", " ">>

L_UPDATE_ == <<"U", "P", "D", "A", "T", "E", " ">>

L_WHERE_ == <<"W", "H", "E", "R", "E", " ">>

(***************************************************************************)
(* _collapse_whitespace and _trim_semicolon (src/SQLFormatter.py:40-48).   *)
(***************************************************************************)
\* re.sub(r"\s+", " ", str): the first character of a run of whitespace
\* becomes a space, the others go
collapse_runs(str) ==
    LET piece(i) == IF ~IsSpace(str[i]) THEN <<str[i]>>
                    ELSE IF i > 1 /\ IsSpace(str[i - 1]) THEN <<>>
                    ELSE <<" ">>
    IN  FlatMap(piece, 1, Len(str))

_collapse_whitespace(text) == call("strip", <<call("collapse_runs", <<text>>)>>)

\* str.rstrip(";")
rstrip_semicolons(str) ==
    LET ns == {i \in 1..Len(str) : str[i] # ";"}
    IN  IF ns = {} THEN <<>> ELSE SubSeq(str, 1, Max(ns))

_trim_semicolon(text) == call("rstrip_semicolons", <<call("strip", <<text>>)>>)

\* $ at index i (no MULTILINE): the end of str, or before its final newline
AtEnd(str, i) == i = Len(str) + 1 \/ (i = Len(str) /\ str[i] = "\n")

\* the number of single quotes of str from index i on
quotes_from(str, i) == Cardinality({k \in i..Len(str) : str[k] = "'"})

\* re.split(r",(?=(?:[^']*'[^']*')*[^']*$)", str): at the commas followed by
\* an even number of single quotes
RECURSIVE split_outside_quotes(_)
split_outside_quotes(str) ==
    LET i == First({k \in 1..Len(str) : str[k] = "," /\ call("quotes_from", <<str, k + 1>>) % 2 = 0})
    IN  IF i = 0 THEN <<str>>
        ELSE <<SubSeq(str, 1, i - 1)>> \o call("split_outside_quotes", <<From(str, i + 1)>>)

\* str.splitlines() for the line boundaries \n, \r, \r\n and \f
RECURSIVE splitlines(_)
splitlines(str) ==
    IF str = <<>> THEN <<>>
    ELSE LET i == First({k \in 1..Len(str) : str[k] \in {"\n", "\r", "\f"}})
         IN  IF i = 0 THEN <<str>>
             ELSE LET skip == IF LitAt(str, i, <<"\r", "\n">>) THEN 2 ELSE 1
                  IN  <<SubSeq(str, 1, i - 1)>> \o call("splitlines", <<From(str, i + skip)>>)

(***************************************************************************)
(* format_case_expression (src/SQLFormatter.py:536-580).                   *)
(***************************************************************************)
\* WHEN\s+(.+?)\s+THEN\s+(.+?)(?=(?:WHEN|ELSE|$)) matched at index i, with
\* IGNORECASE and DOTALL.  n is the length \s+ keeps after WHEN (greedy: the
\* longest first), e the index after cond (lazy: the least first)
when_then_tries(str, i) ==
    LET a == i + Len(L_WHEN)
        w == SkipWs(str, a) - a
    IN  IF ~LitAtI(str, i, L_WHEN) THEN {}
        ELSE {<<n, e>> \in (1..w) \X ((a + 2)..Len(str)) :
                 /\ e >= a + n + 1
                 /\ IsSpace(str[e])
                 /\ LitAtI(str, SkipWs(str, e), L_THEN)
                 /\ LET th == SkipWs(str, e) + Len(L_THEN)
                    IN  SkipWs(str, th) > th /\ th + 1 <= Len(str)}

when_then_at(str, i) ==
    LET tries == call("when_then_tries", <<str, i>>)
    IN  IF tries = {} THEN [ok |-> FALSE]
        ELSE LET a == i + Len(L_WHEN)
                 n == Max({x[1] : x \in tries})
                 e == Min({x[2] : x \in {y \in tries : y[1] = n}})
                 th == SkipWs(str, e) + Len(L_THEN)
                 \* \s+ after THEN gives back one character when res would be empty
                 r0 == IF SkipWs(str, th) <= Len(str) THEN SkipWs(str, th)
                       ELSE SkipWs(str, th) - 1
                 f == Min({k \in (r0 + 1)..(Len(str) + 1) :
                             \/ LitAtI(str, k, L_WHEN)
                             \/ LitAtI(str, k, L_ELSE)
                             \/ AtEnd(str, k)})
             IN  IF r0 <= th THEN [ok |-> FALSE]
                 ELSE [ok |-> TRUE, cond |-> SubSeq(str, a + n, e - 1),
                       res |-> SubSeq(str, r0, f - 1), to |-> f]

\* re.findall of that pattern from index i on
RECURSIVE when_then_pairs(_, _)
when_then_pairs(str, i) ==
    LET j == First({k \in i..Len(str) : call("when_then_at", <<str, k>>).ok})
    IN  IF j = 0 THEN <<>>
        ELSE LET m == call("when_then_at", <<str, j>>)
             IN  <<<<m.cond, m.res>>>> \o call("when_then_pairs", <<str, m.to>>)

\* re.search(r"ELSE\s+(?P<else>.+)$", str) with IGNORECASE and DOTALL: the
\* index of the group, or 0
else_at(str, i) ==
    LET a == i + Len(L_ELSE)
        b == SkipWs(str, a)
    IN  IF ~LitAtI(str, i, L_ELSE) \/ b = a THEN 0
        ELSE IF b <= Len(str) THEN b
        ELSE IF b - 1 > a THEN b - 1
        ELSE 0

else_match(str) ==
    LET i == First({k \in 1..Len(str) : call("else_at", <<str, k>>) # 0})
    IN  IF i = 0 THEN 0 ELSE call("else_at", <<str, i>>)

\* re.match(r"(.+?\bIN)\s*\((.+)\)$", cond) with IGNORECASE and DOTALL: k is
\* the length of the text before IN
in_match(cond) ==
    LET n == Len(cond)
        \* the end of the match: ")" at the end, or before a final newline
        close == IF n >= 1 /\ cond[n] = ")" THEN n
                 ELSE IF n >= 2 /\ cond[n] = "\n" /\ cond[n - 1] = ")" THEN n - 1
                 ELSE 0
        ks == {k \in 1..n :
                 /\ LitAtI(cond, k + 1, L_IN)
                 /\ WordBoundary(cond, k + 1)
                 /\ LitAt(cond, SkipWs(cond, k + 3), <<"(">>)
                 /\ close >= SkipWs(cond, k + 3) + 2}
    IN  IF close = 0 \/ ks = {} THEN [ok |-> FALSE]
        ELSE LET k == Min(ks)
             IN  [ok |-> TRUE, prefix |-> SubSeq(cond, 1, k + 2),
                  list |-> SubSeq(cond, SkipWs(cond, k + 3) + 1, close - 1)]

\* the lines of one WHEN ... THEN pair (lines 558-571)
when_lines(pair) ==
    LET cond == call("strip", <<pair[1]>>)
        res == call("strip", <<pair[2]>>)
        m == call("in_match", <<cond>>)
    IN  IF m.ok THEN
            LET in_prefix == call("strip", <<m.prefix>>)
                items == call("strip_each", <<call("split_outside_quotes", <<call("strip", <<m.list>>)>>)>>)
            IN  <<L_indent_WHEN_ \o in_prefix \o <<" ", "(">>>>
                \o [j \in 1..Len(items) |->
                        L_indent8 \o items[j] \o (IF j < Len(items) THEN <<",">> ELSE <<>>)]
                \o <<L_indent_close_THEN_ \o res>>
        ELSE <<L_indent_WHEN_ \o cond \o L__THEN_ \o res>>

RECURSIVE all_when_lines(_)
all_when_lines(pairs) ==
    IF pairs = <<>> THEN <<>> ELSE call("when_lines", <<pairs[1]>>) \o call("all_when_lines", <<Tail(pairs)>>)

\* _case_repl: the replacement of one CASE ... END block
_case_repl(full_block) ==
    LET inner == call("strip", <<SubSeq(full_block, 5, Len(full_block) - 3)>>)
        e == call("else_match", <<inner>>)
        lines == <<L_CASE>> \o call("all_when_lines", <<call("when_then_pairs", <<inner, 1>>)>>)
                 \o (IF e # 0 THEN <<L_indent_ELSE_ \o call("strip", <<From(inner, e)>>)>> ELSE <<>>)
                 \o <<L_END>>
    IN  call("join", <<<<"\n">>, lines>>)

\* CASE\b.*?END\b matched at index i (IGNORECASE, DOTALL): the index after
\* the match, or 0
case_block_at(str, i) ==
    IF ~(LitAtI(str, i, L_CASE) /\ WordBoundary(str, i + Len(L_CASE))) THEN 0
    ELSE LET j == First({k \in (i + Len(L_CASE))..Len(str) :
                           LitAtI(str, k, L_END) /\ WordBoundary(str, k + Len(L_END))})
         IN  IF j = 0 THEN 0 ELSE j + Len(L_END)

\* re.sub(r"CASE\b.*?END\b", _case_repl, sql, flags=re.IGNORECASE | re.DOTALL)
RECURSIVE format_case_expression(_)
format_case_expression(sql) ==
    LET i == First({k \in 1..Len(sql) : call("case_block_at", <<sql, k>>) # 0})
    IN  IF i = 0 THEN sql
        ELSE LET to == call("case_block_at", <<sql, i>>)
             IN  SubSeq(sql, 1, i - 1) \o call("_case_repl", <<SubSeq(sql, i, to - 1)>>)
                     \o call("format_case_expression", <<From(sql, to)>>)

(***************************************************************************)
(* format_update_block (src/SQLFormatter.py:345-392).                      *)
(***************************************************************************)
\* UPDATE\s+([^\s]+)\s+SET\s+ matched at the start of str (IGNORECASE): the
\* table and the index after the match
update_head(str) ==
    LET a == Len(L_UPDATE) + 1
        b == SkipWs(str, a)
        c == Min({k \in b..Len(str) : IsSpace(str[k])} \cup {Len(str) + 1})
        d == SkipWs(str, c)
        e == d + Len(L_SET)
        f == SkipWs(str, e)
    IN  IF LitAtI(str, 1, L_UPDATE) /\ b > a /\ c > b /\ d > c
           /\ LitAtI(str, d, L_SET) /\ f > e
        THEN [ok |-> TRUE, table |-> SubSeq(str, b, c - 1), to |-> f]
        ELSE [ok |-> FALSE]

\* (?:\s+WHERE\s+(.*?))?; tried at index j: with the WHERE group, then without
update_tail_at(str, j) ==
    LET a == SkipWs(str, j)
        b == a + Len(L_WHERE)
        c == SkipWs(str, b)
        \* \s+ after WHERE may give back characters; .*? then takes them
        semi == First({k \in (b + 1)..Len(str) : str[k] = ";"})
    IN  IF a > j /\ LitAtI(str, a, L_WHERE) /\ c > b /\ semi # 0
        THEN [ok |-> TRUE, has_where |-> TRUE,
              where |-> SubSeq(str, IF c <= semi THEN c ELSE semi, semi - 1)]
        ELSE IF LitAt(str, j, <<";">>)
        THEN [ok |-> TRUE, has_where |-> FALSE, where |-> <<>>]
        ELSE [ok |-> FALSE]

\* the lines of one assignment (lines 372-383), or IndexError
assignment_lines(part, comma) ==
    LET lines == call("splitlines", <<call("format_case_expression", <<part>>)>>)
        n == Len(lines)
    IN  IF n = 1 THEN <<INDENT_2 \o INDENT_2 \o lines[1] \o comma>>
        ELSE IF n = 0 THEN IndexError
        ELSE <<INDENT_2 \o INDENT_2 \o lines[1]>>
             \o [k \in 1..(n - 2) |-> INDENT_2 \o INDENT_2 \o INDENT_2 \o lines[k + 1]]
             \o <<INDENT_2 \o INDENT_2 \o INDENT_2 \o lines[n] \o comma>>

RECURSIVE all_assignment_lines(_, _)
all_assignment_lines(parts, i) ==
    IF i > Len(parts) THEN <<>>
    ELSE LET one == call("assignment_lines", <<parts[i], IF i < Len(parts) THEN <<",">> ELSE <<>>>>)
             rest == call("all_assignment_lines", <<parts, i + 1>>)
         IN  IF one = IndexError \/ rest = IndexError THEN IndexError
             ELSE one \o rest

\* re.sub(r"\n;$", ";", str)
join_last_semicolon(str) ==
    LET n == Len(str)
    IN  IF LitAt(str, n - 1, <<"\n", ";">>)
        THEN SubSeq(str, 1, n - 2) \o <<";">>
        ELSE IF LitAt(str, n - 2, <<"\n", ";", "\n">>)
        THEN SubSeq(str, 1, n - 3) \o <<";", "\n">>
        ELSE str

format_update_block(sql) ==
    LET joined == call("_collapse_whitespace", <<sql>>)
        h == call("update_head", <<joined>>)
        j == IF h.ok
             THEN First({k \in h.to..Len(joined) : call("update_tail_at", <<joined, k>>).ok})
             ELSE 0
    IN  IF j = 0 THEN call("strip", <<sql>>)
        ELSE
        LET tail == call("update_tail_at", <<joined, j>>)
            table == call("strip", <<h.table>>)
            assigns == call("strip", <<SubSeq(joined, h.to, j - 1)>>)
            where_clause == call("strip", <<tail.where>>)
            parts == call("strip_each", <<call("split_outside_quotes", <<assigns>>)>>)
            body == call("all_assignment_lines", <<parts, 1>>)
        IN  IF body = IndexError THEN IndexError
            ELSE call("join_last_semicolon", <<call("join", <<<<"\n">>,
                     <<L_UPDATE_ \o table, INDENT_2 \o L_SET>> \o body
                     \o <<IF where_clause # <<>> THEN L_WHERE_ \o where_clause \o <<";">>
                          ELSE <<";">>>>>>)>>)

L_SELECT == <<"S", "E", "L", "E", "C", "T">>

L_DELETE == <<"D", "E", "L", "E", "T", "E">>

L_FROM == <<"F", "R", "O", "M">>

L_AND == <<"A", "N", "D">>

L_CREATE == <<"C", "R", "E", "A", "T", "E">>

L_TABLE == <<"T", "A", "B", "L", "E">>

L_ALTER == <<"A", "L", "T", "E", "R">>

L_DELETE_FROM == <<"D", "E", "L", "E", "T", "E", " ", "F", "R", "O", "M">>

L_AND_ == <<"A", "N", "D", " ">>

L_SET_ == <<"S", "E", "T", " ">>

L_close_SELECT == <<")", " ", "S", "E", "L", "E", "C", "T">>

L__comment_ == <<" ", " ", "-", "-", " ">>

L_err_insert_select == <<"(x)", " ", "I", "n", "v", "a", "l", "i", "d", " ", "f", "o", "r", "m", "a", "t", ".", " ", "E", "x", "p", "e", "c", "t", "i", "n", "g", " ", "I", "N", "S", "E", "R", "T", " ", "I", "N", "T", "O", " ", "<", "t", "a", "b", "l", "e", ">", "(", ".", ".", ".", ")", " ", "S", "E", "L", "E", "C", "T", " ", ".", ".", ".">>

L_err_count_mismatch == <<"(x)", " ", "C", "o", "l", "u", "m", "n", "/", "s", "e", "l", "e", "c", "t", " ", "c", "o", "u", "n", "t", " ", "m", "i", "s", "m", "a", "t", "c", "h", " ", "(">>

L__vs_ == <<" ", "v", "s", " ">>

\* the value of a call that ends by raising ValueError
ValueError == <<"ValueError">>

(***************************************************************************)
(* format_simple_single_line (src/SQLFormatter.py:526-534).                *)
(***************************************************************************)
format_simple_single_line(sql) == call("collapse_runs", <<call("strip", <<sql>>)>>)

(***************************************************************************)
(* format_delete_block (src/SQLFormatter.py:496-524).                      *)
(***************************************************************************)
\* delete_match = re.match(r"DELETE\s+FROM\s+([^\s;]+)", sql, re.IGNORECASE)
delete_match(sql) ==
    LET a == Len(L_DELETE) + 1
        b == SkipWs(sql, a)
        c == b + Len(L_FROM)
        d == SkipWs(sql, c)
        e == Min({k \in d..Len(sql) : IsSpace(sql[k]) \/ sql[k] = ";"} \cup {Len(sql) + 1})
    IN  IF LitAtI(sql, 1, L_DELETE) /\ b > a /\ LitAtI(sql, b, L_FROM) /\ d > c /\ e > d
        THEN [ok |-> TRUE, from |-> d, to |-> e]
        ELSE NoMatch

\* re.split(r"\bWHERE\b", sql, maxsplit=1, flags=re.IGNORECASE)
split_where(sql) ==
    LET i == First({k \in 1..Len(sql) :
                      /\ LitAtI(sql, k, L_WHERE)
                      /\ WordBoundary(sql, k)
                      /\ WordBoundary(sql, k + Len(L_WHERE))})
    IN  IF i = 0 THEN <<sql>>
        ELSE <<SubSeq(sql, 1, i - 1), From(sql, i + Len(L_WHERE))>>

\* \s+AND\s+ matched at index i (IGNORECASE): the index after the match, or 0
and_at(str, i) ==
    LET a == SkipWs(str, i)
        b == a + Len(L_AND)
        c == SkipWs(str, b)
    IN  IF a > i /\ LitAtI(str, a, L_AND) /\ c > b THEN c ELSE 0

\* re.split(r"\s+AND\s+", str, flags=re.IGNORECASE)
RECURSIVE split_and(_)
split_and(str) ==
    LET i == First({k \in 1..Len(str) : call("and_at", <<str, k>>) # 0})
    IN  IF i = 0 THEN <<str>>
        ELSE <<SubSeq(str, 1, i - 1)>> \o call("split_and", <<From(str, call("and_at", <<str, i>>))>>)

format_delete_block(sql) ==
    LET m == call("delete_match", <<sql>>)
        where_clause == call("split_where", <<sql>>)
    IN  IF ~m.ok \/ Len(where_clause) <= 1 THEN call("strip", <<sql>>)
        ELSE
        LET table == group1(sql, m)
            conditions == call("split_and", <<call("rstrip_semicolons", <<where_clause[2]>>)>>)
            lines == <<L_DELETE_FROM \o <<" ">> \o table, L_WHERE>>
                     \o [i \in 1..Len(conditions) |->
                            INDENT_1 \o (IF i > 1 THEN L_AND_ ELSE <<>>)
                                \o call("strip", <<conditions[i]>>)]
        IN  call("join", <<<<"\n">>, lines>>) \o <<";">>

(***************************************************************************)
(* format_set_block (src/SQLFormatter.py:402-431).                         *)
(***************************************************************************)
\* ;?\s*$ matches str from index e on
set_line_end(str, e) ==
    LET a == IF LitAt(str, e, <<";">>) THEN e + 1 ELSE e
    IN  SkipWs(str, a) = Len(str) + 1 \/ SkipWs(str, e) = Len(str) + 1

\* set_pattern.match(line) for
\* r"^\s*SET\s+(@?[A-Z0-9_]+)\s*([:=]{1,2})\s*(.+?);?\s*$" with IGNORECASE.
\* The tries are <<length of the operator, index of the rhs, index after it>>:
\* the operator and \s* take the longest first, the rhs the shortest first
set_match(line) ==
    LET a == SkipWs(line, 1)
        b == a + Len(L_SET)
        c == SkipWs(line, b)
        d == IF LitAt(line, c, <<"@">>) THEN c + 1 ELSE c
        e == Min({k \in d..Len(line) : ~IsWordChar(line[k])} \cup {Len(line) + 1})
        f == SkipWs(line, e)
        is_op(k) == k <= Len(line) /\ line[k] \in {":", "="}
        tries == {<<n, g, h>> \in (1..2) \X ((f + 1)..Len(line)) \X ((f + 2)..(Len(line) + 1)) :
                    /\ \A k \in f..(f + n - 1) : is_op(k)
                    /\ g >= f + n /\ g <= SkipWs(line, f + n)
                    /\ h >= g + 1
                    /\ \A k \in g..(h - 1) : line[k] # "\n"
                    /\ call("set_line_end", <<line, h>>)}
    IN  IF ~(LitAtI(line, a, L_SET) /\ c > b /\ e > d /\ tries # {}) THEN [ok |-> FALSE]
        ELSE LET n == Max({x[1] : x \in tries})
                 g == Max({x[2] : x \in {y \in tries : y[1] = n}})
                 h == Min({x[3] : x \in {y \in tries : y[1] = n /\ y[2] = g}})
             IN  [ok |-> TRUE, lhs |-> SubSeq(line, c, e - 1),
                  op |-> SubSeq(line, f, f + n - 1),
                  rhs |-> call("rstrip_semicolons", <<call("strip", <<SubSeq(line, g, h - 1)>>)>>)]

\* str.ljust(width)
ljust(str, width) == str \o Spaces(width - Len(str))

format_set_block(sql) ==
    LET lines == call("splitlines", <<call("strip", <<sql>>)>>)
        parsed == [i \in 1..Len(lines) |-> call("set_match", <<lines[i]>>)]
    IN  IF \E i \in 1..Len(lines) : ~parsed[i].ok THEN sql
        ELSE IF \E i \in 1..Len(lines) :
                    startswith(parsed[i].rhs, <<"{">>) \/ startswith(parsed[i].rhs, <<"[">>)
        THEN sql
        ELSE IF lines = <<>> THEN ValueError
        ELSE LET max_lhs == Max({Len(parsed[i].lhs) : i \in 1..Len(lines)})
             IN  call("join", <<<<"\n">>,
                     [i \in 1..Len(lines) |->
                         L_SET_ \o call("ljust", <<parsed[i].lhs, max_lhs>>) \o <<" ">> \o parsed[i].op
                             \o <<" ">> \o parsed[i].rhs \o <<";">>]>>)

(***************************************************************************)
(* format_create_table and format_alter_table (src/SQLFormatter.py:285-343)*)
(***************************************************************************)
\* re.split(r",(?![^(]*\))", str) and re.split(r",(?![^()]*\))", str): at the
\* commas whose next parenthesis, if any, is not a closing one
RECURSIVE split_outside_parens(_)
split_outside_parens(str) ==
    LET next_paren(k) == First({p \in (k + 1)..Len(str) : str[p] \in {"(", ")"}})
        i == First({k \in 1..Len(str) :
                      /\ str[k] = ","
                      /\ (next_paren(k) = 0 \/ str[next_paren(k)] = "(")})
    IN  IF i = 0 THEN <<str>>
        ELSE <<SubSeq(str, 1, i - 1)>> \o call("split_outside_parens", <<From(str, i + 1)>>)

\* the lines of a list with a comma after all but the last
indented_list(items) ==
    [i \in 1..Len(items) |->
        INDENT_1 \o items[i] \o (IF i < Len(items) THEN <<",">> ELSE <<>>)]

\* re.match(r"(CREATE\s+TABLE\s+[^\(]+)\s*\((.*)\)\s*", stripped,
\*          flags=re.IGNORECASE | re.DOTALL)
create_table_match(stripped) ==
    LET a == Len(L_CREATE) + 1
        b == SkipWs(stripped, a)
        c == b + Len(L_TABLE)
        open == First({k \in 1..Len(stripped) : stripped[k] = "("})
        close == IF open = 0 THEN 0
                 ELSE First({k \in (open + 1)..Len(stripped) :
                               /\ stripped[k] = ")"
                               /\ \A j \in (k + 1)..Len(stripped) : stripped[j] # ")"})
    IN  IF LitAtI(stripped, 1, L_CREATE) /\ b > a /\ LitAtI(stripped, b, L_TABLE)
           /\ c <= Len(stripped) /\ IsSpace(stripped[c]) /\ open >= c + 2 /\ close # 0
        THEN [ok |-> TRUE, header |-> SubSeq(stripped, 1, open - 1),
              body |-> SubSeq(stripped, open + 1, close - 1)]
        ELSE [ok |-> FALSE]

format_create_table(sql) ==
    LET stripped == call("_trim_semicolon", <<sql>>)
        m == call("create_table_match", <<stripped>>)
    IN  IF ~m.ok THEN call("strip", <<sql>>)
        ELSE LET header == call("strip", <<m.header>>)
                 body == call("strip", <<m.body>>)
                 cols == call("strip_each", <<call("split_outside_parens", <<body>>)>>)
             IN  IF Len(cols) = 1 THEN call("collapse_runs", <<call("strip", <<sql>>)>>) \o <<";">>
                 ELSE call("join", <<<<"\n">>, <<header \o <<" ", "(">>>> \o call("indented_list", <<cols>>)
                                     \o <<<<")", ";">>>>>>)

\* re.match(r"(ALTER\s+TABLE\s+[^\s]+)\s+(.*)", stripped,
\*          flags=re.IGNORECASE | re.DOTALL)
alter_table_match(stripped) ==
    LET a == Len(L_ALTER) + 1
        b == SkipWs(stripped, a)
        c == b + Len(L_TABLE)
        d == SkipWs(stripped, c)
        e == Min({k \in d..Len(stripped) : IsSpace(stripped[k])} \cup {Len(stripped) + 1})
        f == SkipWs(stripped, e)
    IN  IF LitAtI(stripped, 1, L_ALTER) /\ b > a /\ LitAtI(stripped, b, L_TABLE)
           /\ d > c /\ e > d /\ f > e
        THEN [ok |-> TRUE, header |-> SubSeq(stripped, 1, e - 1), rest |-> From(stripped, f)]
        ELSE [ok |-> FALSE]

format_alter_table(sql) ==
    LET stripped == call("_trim_semicolon", <<sql>>)
        m == call("alter_table_match", <<stripped>>)
    IN  IF ~m.ok THEN call("strip", <<sql>>)
        ELSE LET header == call("strip", <<m.header>>)
                 rest == call("strip", <<m.rest>>)
                 actions == call("strip_each", <<call("split_outside_parens", <<rest>>)>>)
             IN  IF Len(actions) = 1 THEN call("_collapse_whitespace", <<stripped>>) \o <<" ", ";">>
                 ELSE call("join", <<<<"\n">>, <<header>> \o call("indented_list", <<actions>>) \o <<<<";">>>>>>)

(***************************************************************************)
(* format_insert_select_block (src/SQLFormatter.py:227-269).               *)
(***************************************************************************)
\* SELECT\s+(.*?)\s+FROM\s matched at index i (DOTALL, IGNORECASE).  The
\* tries are <<length kept by \s+, index after the group>>
select_tries(str, i) ==
    LET a == i + Len(L_SELECT)
        w == SkipWs(str, a) - a
    IN  IF ~LitAtI(str, i, L_SELECT) THEN {}
        ELSE {<<n, e>> \in (1..w) \X ((a + 1)..Len(str)) :
                 /\ e >= a + n
                 /\ IsSpace(str[e])
                 /\ LitAtI(str, SkipWs(str, e), L_FROM)
                 /\ SkipWs(str, e) + Len(L_FROM) <= Len(str)
                 /\ IsSpace(str[SkipWs(str, e) + Len(L_FROM)])}

select_m(sql) ==
    LET i == First({k \in 1..Len(sql) : call("select_tries", <<sql, k>>) # {}})
    IN  IF i = 0 THEN NoMatch
        ELSE LET tries == call("select_tries", <<sql, i>>)
                 n == Max({x[1] : x \in tries})
                 e == Min({x[2] : x \in {y \in tries : y[1] = n}})
             IN  [ok |-> TRUE, from |-> i + Len(L_SELECT) + n, to |-> e]

\* cols_m of format_insert_select_block
select_cols_m(sql) ==
    LET i == First({j \in 1..Len(sql) : call("insert_columns_at", <<sql, j, L_SELECT>>).ok})
    IN  IF i = 0 THEN NoMatch ELSE call("insert_columns_at", <<sql, i, L_SELECT>>)

\* sql[sql.upper().find("FROM"):]
rest_from(sql) ==
    LET i == First({k \in 1..Len(sql) : LitAt(call("upper", <<sql>>), k, L_FROM)})
    IN  IF i = 0 THEN From(sql, Len(sql)) ELSE From(sql, i)

format_insert_select_block(sql) ==
    LET tm == call("table_m", <<sql>>)
        cm == call("select_cols_m", <<sql>>)
        sm == call("select_m", <<sql>>)
    IN  IF ~tm.ok \/ ~cm.ok \/ ~sm.ok THEN L_err_insert_select
        ELSE
        LET table_name == group1(sql, tm)
            cols == call("strip_each", <<call("split_char", <<group1(sql, cm), ",">>)>>)
            selects == call("strip_each", <<call("split_outside_parens", <<group1(sql, sm)>>)>>)
        IN  IF Len(cols) # Len(selects)
            THEN L_err_count_mismatch \o call("str_of_int", <<Len(cols)>>) \o L__vs_
                     \o call("str_of_int", <<Len(selects)>>) \o <<")", ".">>
            ELSE
            LET sel_comma == call("with_commas", <<selects>>)
                max_len == IF sel_comma = <<>> THEN 0
                           ELSE Max({Len(sel_comma[i]) : i \in 1..Len(sel_comma)})
                lines == call("insert_header", <<table_name, cols, L_close_SELECT>>)
                         \o [i \in 1..Len(sel_comma) |->
                                INDENT_1 \o call("ljust", <<sel_comma[i], max_len>>) \o L__comment_ \o cols[i]]
                         \o <<call("strip", <<call("rest_from", <<sql>>)>>)>>
            IN  call("join", <<<<"\n">>, lines>>)

(***************************************************************************)
(* json.loads and json.dumps(parsed, indent=4), as called at               *)
(* src/SQLFormatter.py:476-477.  A parsed value is <<"lit", text>> for a   *)
(* number, true, false, null, NaN or an infinity, with the text that       *)
(* json.dumps writes for it; <<"str", text>> for a string, with the text   *)
(* json.dumps writes between the quotes; <<"arr", values>>; and            *)
(* <<"obj", pairs>> with the pairs <<key, value>> in the order of the      *)
(* dict.                                                                   *)
(***************************************************************************)
\* U+0060, which a TLA+ string cannot hold
GraveAccent == "(grave)"

\* the characters U+0020 to U+007E in order
AsciiPrintable == <<" ", "!", "\"", "#", "$", "%", "&", "'", "(", ")", "*", "+", ",", "-", ".", "/", "0", "1", "2", "3", "4", "5", "6", "7", "8", "9", ":", ";", "<", "=", ">", "?", "@", "A", "B", "C", "D", "E", "F", "G", "H", "I", "J", "K", "L", "M", "N", "O", "P", "Q", "R", "S", "T", "U", "V", "W", "X", "Y", "Z", "[", "\\", "]", "^", "_", GraveAccent, "a", "b", "c", "d", "e", "f", "g", "h", "i", "j", "k", "l", "m", "n", "o", "p", "q", "r", "s", "t", "u", "v", "w", "x", "y", "z", "{", "|", "}", "~">>

HexDigits == <<"0", "1", "2", "3", "4", "5", "6", "7", "8", "9", "a", "b", "c", "d", "e", "f">>

L_true == <<"t", "r", "u", "e">>

L_false == <<"f", "a", "l", "s", "e">>

L_null == <<"n", "u", "l", "l">>

L_NaN == <<"N", "a", "N">>

L_Infinity == <<"I", "n", "f", "i", "n", "i", "t", "y">>

L_minus_Infinity == <<"-", "I", "n", "f", "i", "n", "i", "t", "y">>

L_u274c == <<"\\", "u", "2", "7", "4", "c">>

L_eq == <<"=">>

L_quote_brace == <<"'", "{">>

JsonWs == {" ", "\t", "\n", "\r"}

\* the index of the first character at or after i that is not JSON whitespace
SkipJsonWs(str, i) ==
    Min({k \in i..Len(str) : str[k] \notin JsonWs} \cup {Len(str) + 1})

JsonError == [ok |-> FALSE]

IndexIn(seq, c) == First({k \in 1..Len(seq) : seq[k] = c})

IsDigit(str, k) == k >= 1 /\ k <= Len(str) /\ str[k] \in Range(Digits)

\* the lower-case form of a hexadecimal digit
LowerOf(c) == IF IndexIn(UpperCase, c) # 0 THEN LowerCase[IndexIn(UpperCase, c)] ELSE c

IsHex(str, k) == k >= 1 /\ k <= Len(str) /\ IndexIn(HexDigits, LowerOf(str[k])) # 0

\* what json.dumps writes for one character of a string (ensure_ascii)
encode_char(c) ==
    CASE c = "\"" -> <<"\\", "\"">>
      [] c = "\\" -> <<"\\", "\\">>
      [] c = "\n" -> <<"\\", "n">>
      [] c = "\r" -> <<"\\", "r">>
      [] c = "\t" -> <<"\\", "t">>
      [] c = "\f" -> <<"\\", "f">>
      [] c = CrossMark -> L_u274c
      [] OTHER -> <<c>>

\* what json.dumps writes for the character of the escape \uXXXX at index i
\* (the index of the backslash); a surrogate is written as it was read
encode_unicode_escape(str, i) ==
    LET h(k) == IndexIn(HexDigits, LowerOf(str[i + 1 + k])) - 1
        code == 4096 * h(1) + 256 * h(2) + 16 * h(3) + h(4)
    IN  CASE code >= 32 /\ code <= 126 -> encode_char(AsciiPrintable[code - 31])
          [] code = 8 -> <<"\\", "b">>
          [] code = 9 -> <<"\\", "t">>
          [] code = 10 -> <<"\\", "n">>
          [] code = 12 -> <<"\\", "f">>
          [] code = 13 -> <<"\\", "r">>
          [] OTHER -> <<"\\", "u">> \o [k \in 1..4 |-> LowerOf(str[i + 1 + k])]

\* scanstring(s, end, strict=True) from index i, the index after the opening
\* quote, with acc the text read so far: the characters up to the next quote,
\* backslash or control character are read at once
RECURSIVE scan_string(_, _, _)
scan_string(str, i, acc) ==
    LET k == Min({j \in i..Len(str) : str[j] \in {"\"", "\\", "\n", "\r", "\t", "\f"}}
                 \cup {Len(str) + 1})
        piece(j) == encode_char(str[j])
        read == acc \o FlatMap(piece, i, k - 1)
        c == IF k + 1 <= Len(str) THEN str[k + 1] ELSE ""
    IN  CASE k > Len(str) -> JsonError
          [] k <= Len(str) /\ str[k] = "\"" -> [ok |-> TRUE, v |-> read, next |-> k + 1]
          [] k <= Len(str) /\ str[k] = "\\" /\ c \in {"\"", "\\", "b", "f", "n", "r", "t"} ->
                call("scan_string", <<str, k + 2, read \o <<"\\", c>>>>)
          [] k <= Len(str) /\ str[k] = "\\" /\ c = "/" ->
                call("scan_string", <<str, k + 2, Append(read, "/")>>)
          [] k <= Len(str) /\ str[k] = "\\" /\ c = "u" /\ \A h \in 1..4 : IsHex(str, k + 1 + h) ->
                call("scan_string", <<str, k + 6, read \o call("encode_unicode_escape", <<str, k>>)>>)
          [] OTHER -> JsonError

\* repr of the float written as <<int part, fraction digits>> without an
\* exponent, for at most 15 significant digits and no exponent in the repr;
\* the digits of any other float are not computed and it is written
\* float(<source text>)
float_repr(text, int_end, frac_end, exp_end) ==
    LET frac == SubSeq(text, int_end + 1, frac_end - 1)
        nonzero == {k \in 1..Len(frac) : frac[k] # "0"}
        int_part == SubSeq(text, 1, int_end - 1)
        int_zero == int_part \in {<<"0">>, <<"-", "0">>}
        exact == /\ exp_end = frac_end
                 /\ frac_end > int_end
                 /\ Len(int_part) + Len(frac) <= 15
                 /\ ~(int_zero /\ nonzero # {} /\ Min(nonzero \cup {99}) >= 5)
    IN  IF exact
        THEN int_part \o <<".">>
             \o (IF nonzero = {} THEN <<"0">> ELSE SubSeq(frac, 1, Max(nonzero)))
        ELSE <<"f", "l", "o", "a", "t", "(">> \o text \o <<")">>

\* NUMBER_RE.match(str, i) for (-?(?:0|[1-9]\d*))(\.\d+)?([eE][-+]?\d+)?
\* and the value json.dumps writes for it
scan_number(str, i) ==
    LET a == IF LitAt(str, i, <<"-">>) THEN i + 1 ELSE i
        int_end == IF LitAt(str, a, <<"0">>) THEN a + 1
                   ELSE Min({k \in a..Len(str) : ~IsDigit(str, k)} \cup {Len(str) + 1})
        digits_end(k) == Min({j \in k..Len(str) : ~IsDigit(str, j)} \cup {Len(str) + 1})
        frac_end == IF LitAt(str, int_end, <<".">>) /\ IsDigit(str, int_end + 1)
                    THEN digits_end(int_end + 1) ELSE int_end
        e1 == frac_end + 1
        e2 == IF e1 <= Len(str) /\ str[e1] \in {"-", "+"} THEN e1 + 1 ELSE e1
        exp_end == IF frac_end <= Len(str) /\ str[frac_end] \in {"e", "E"} /\ IsDigit(str, e2)
                   THEN digits_end(e2) ELSE frac_end
        text == SubSeq(str, i, exp_end - 1)
    IN  IF int_end = a THEN JsonError
        ELSE [ok |-> TRUE, next |-> exp_end,
              v |-> <<"lit", IF exp_end > int_end
                             THEN call("float_repr", <<text, int_end - i + 1, frac_end - i + 1, exp_end - i + 1>>)
                             ELSE IF text = <<"-", "0">> THEN <<"0">> ELSE text>>]

\* dict semantics: a key keeps its first position and its last value
dict_of(pairs) ==
    LET firsts == {k \in 1..Len(pairs) : \A j \in 1..(k - 1) : pairs[j][1] # pairs[k][1]}
        last(k) == Max({j \in 1..Len(pairs) : pairs[j][1] = pairs[k][1]})
        nth(n) == CHOOSE k \in firsts : Cardinality({j \in firsts : j < k}) = n - 1
    IN  [n \in 1..Cardinality(firsts) |-> <<pairs[nth(n)][1], pairs[last(nth(n))][2]>>]

RECURSIVE scan_once(_, _), scan_members(_, _, _), scan_elements(_, _, _)
\* JSONObject from index i, the index of the opening quote of the next key,
\* with the pairs read so far
scan_members(str, i, pairs) ==
    LET key == call("scan_string", <<str, i + 1, <<>>>>)
        colon == SkipJsonWs(str, key.next)
        value == call("scan_once", <<str, SkipJsonWs(str, colon + 1)>>)
        after == SkipJsonWs(str, value.next)
        next_key == SkipJsonWs(str, after + 1)
    IN  IF ~LitAt(str, i, <<"\"">>) THEN JsonError
        ELSE IF ~key.ok THEN JsonError
        ELSE IF ~LitAt(str, colon, <<":">>) THEN JsonError
        ELSE IF ~value.ok THEN JsonError
        ELSE IF LitAt(str, after, <<"}">>)
        THEN [ok |-> TRUE, next |-> after + 1,
              v |-> <<"obj", call("dict_of", <<Append(pairs, <<key.v, value.v>>)>>)>>]
        ELSE IF LitAt(str, after, <<",">>)
        THEN call("scan_members", <<str, next_key, Append(pairs, <<key.v, value.v>>)>>)
        ELSE JsonError

\* JSONArray from index i, the index of the next element, with the elements
\* read so far
scan_elements(str, i, values) ==
    LET value == call("scan_once", <<str, i>>)
        after == SkipJsonWs(str, value.next)
    IN  IF ~value.ok THEN JsonError
        ELSE IF LitAt(str, after, <<"]">>)
        THEN [ok |-> TRUE, next |-> after + 1, v |-> <<"arr", Append(values, value.v)>>]
        ELSE IF LitAt(str, after, <<",">>)
        THEN call("scan_elements", <<str, SkipJsonWs(str, after + 1), Append(values, value.v)>>)
        ELSE JsonError

\* scan_once(string, idx) of json.scanner
scan_once(str, i) ==
    LET literal(text) == [ok |-> TRUE, next |-> i + Len(text), v |-> <<"lit", text>>]
        number == call("scan_number", <<str, i>>)
    IN  IF i > Len(str) THEN JsonError
        ELSE IF str[i] = "\""
        THEN LET r == call("scan_string", <<str, i + 1, <<>>>>)
             IN  IF r.ok THEN [ok |-> TRUE, next |-> r.next, v |-> <<"str", r.v>>]
                 ELSE JsonError
        ELSE IF str[i] = "{"
        THEN LET a == SkipJsonWs(str, i + 1)
             IN  IF LitAt(str, a, <<"}">>)
                 THEN [ok |-> TRUE, next |-> a + 1, v |-> <<"obj", <<>>>>]
                 ELSE call("scan_members", <<str, a, <<>>>>)
        ELSE IF str[i] = "["
        THEN LET a == SkipJsonWs(str, i + 1)
             IN  IF LitAt(str, a, <<"]">>)
                 THEN [ok |-> TRUE, next |-> a + 1, v |-> <<"arr", <<>>>>]
                 ELSE call("scan_elements", <<str, a, <<>>>>)
        ELSE IF LitAt(str, i, L_null) THEN literal(L_null)
        ELSE IF LitAt(str, i, L_true) THEN literal(L_true)
        ELSE IF LitAt(str, i, L_false) THEN literal(L_false)
        ELSE IF number.ok THEN number
        ELSE IF LitAt(str, i, L_NaN) THEN literal(L_NaN)
        ELSE IF LitAt(str, i, L_Infinity) THEN literal(L_Infinity)
        ELSE IF LitAt(str, i, L_minus_Infinity) THEN literal(L_minus_Infinity)
        ELSE JsonError

\* json.loads(json_str): a value between optional whitespace, nothing after
json_loads(json_str) ==
    LET r == call("scan_once", <<json_str, SkipJsonWs(json_str, 1)>>)
    IN  IF r.ok /\ SkipJsonWs(json_str, r.next) = Len(json_str) + 1 THEN r ELSE JsonError

\* json.dumps(value, indent=4) at nesting depth level
RECURSIVE json_dumps(_, _)
json_dumps(value, level) ==
    LET items == value[2]
        newline_indent == <<"\n">> \o Spaces(4 * (level + 1))
        item(k) == IF value[1] = "arr" THEN call("json_dumps", <<items[k], level + 1>>)
                   ELSE <<"\"">> \o items[k][1] \o <<"\"", ":", " ">>
                        \o call("json_dumps", <<items[k][2], level + 1>>)
    IN  CASE value[1] = "lit" -> value[2]
          [] value[1] = "str" -> <<"\"">> \o value[2] \o <<"\"">>
          [] value[1] = "arr" /\ items = <<>> -> <<"[", "]">>
          [] value[1] = "obj" /\ items = <<>> -> <<"{", "}">>
          [] OTHER ->
                <<IF value[1] = "arr" THEN "[" ELSE "{">>
                \o newline_indent
                \o call("join", <<<<",">> \o newline_indent, [k \in 1..Len(items) |-> item(k)]>>)
                \o <<"\n">> \o Spaces(4 * level)
                \o <<IF value[1] = "arr" THEN "]" ELSE "}">>

(***************************************************************************)
(* _format_embedded_json (src/SQLFormatter.py:433-483).                    *)
(***************************************************************************)
\* find_balanced_json(text, start) from index i with the loop's variables;
\* 0 stands for the -1 of the code.  A run of characters other than a
\* backslash, a double quote and a brace only clears escape, and is passed
\* at once
RECURSIVE find_balanced_from(_, _, _, _, _)
find_balanced_from(text, i, brace_level, in_str, escape) ==
    LET k == Min({j \in i..Len(text) : text[j] \in {"\\", "\"", "{", "}"}}
                 \cup {Len(text) + 1})
        esc == escape /\ k = i
    IN  CASE k > Len(text) -> 0
          [] k <= Len(text) /\ text[k] = "\\" /\ ~esc ->
                call("find_balanced_from", <<text, k + 1, brace_level, in_str, TRUE>>)
          [] k <= Len(text) /\ text[k] = "\"" /\ ~esc ->
                call("find_balanced_from", <<text, k + 1, brace_level, ~in_str, FALSE>>)
          [] k <= Len(text) /\ text[k] = "{" /\ ~in_str ->
                call("find_balanced_from", <<text, k + 1, brace_level + 1, in_str, FALSE>>)
          [] k <= Len(text) /\ text[k] = "}" /\ ~in_str /\ brace_level - 1 = 0 -> k
          [] k <= Len(text) /\ text[k] = "}" /\ ~in_str /\ brace_level - 1 # 0 ->
                call("find_balanced_from", <<text, k + 1, brace_level - 1, in_str, FALSE>>)
          [] OTHER -> call("find_balanced_from", <<text, k + 1, brace_level, in_str, FALSE>>)

find_balanced_json(text, start) == call("find_balanced_from", <<text, start, 0, FALSE, FALSE>>)

\* a search that starts at the beginning of the statement whatever the offset
json_candidate_anywhere(stmt, from) ==
    LET i == First({k \in 1..Len(stmt) :
                      LitAt(stmt, k, L_eq) /\ LitAt(stmt, SkipWs(stmt, k + 1), L_quote_brace)})
    IN  IF i = 0 THEN 0 ELSE SkipWs(stmt, i + 1) + 1

\* pattern.search(stmt, offset) for r"(=)\s*'({)": the index of the brace of
\* the first match at or after index from, or 0
json_candidate(stmt, from) ==
    LET i == First({k \in from..Len(stmt) :
                      LitAt(stmt, k, L_eq) /\ LitAt(stmt, SkipWs(stmt, k + 1), L_quote_brace)})
    IN  IF i = 0 THEN 0 ELSE SkipWs(stmt, i + 1) + 1

\* the while loop, the search starting at index from
RECURSIVE embedded_json_from(_, _)
embedded_json_from(stmt, from) ==
    LET start_json == call("json_candidate", <<stmt, from>>)
        end_json == call("find_balanced_json", <<stmt, start_json>>)
        parsed == call("json_loads", <<SubSeq(stmt, start_json, end_json)>>)
        pretty == call("json_dumps", <<parsed.v, 0>>)
    IN  IF start_json = 0 THEN stmt
        ELSE IF end_json = 0 THEN stmt
        ELSE IF parsed.ok
        THEN call("embedded_json_from", <<SubSeq(stmt, 1, start_json - 1) \o pretty \o From(stmt, end_json + 1),
                                start_json + Len(pretty)>>)
        ELSE call("embedded_json_from", <<stmt, end_json + 1>>)

_format_embedded_json(stmt) == call("embedded_json_from", <<stmt, 1>>)

\* match.start() of the match whose opening brace is at start_json
match_start(stmt, start_json) ==
    IF start_json = 0 THEN 0 ELSE Max({k \in 1..(start_json - 2) : stmt[k] = "="})

\* what one iteration finds from the offset: the start of the match and its
\* opening brace (0 without a match), the closing brace (0 if unbalanced),
\* whether the text between the braces parses, and its indented form
iteration(stmt, offset) ==
    LET start_json == call("json_candidate", <<stmt, offset>>)
        end_json == IF start_json = 0 THEN 0 ELSE call("find_balanced_json", <<stmt, start_json>>)
        parsed == IF end_json = 0 THEN [ok |-> FALSE]
                  ELSE call("json_loads", <<SubSeq(stmt, start_json, end_json)>>)
    IN  [start |-> call("match_start", <<stmt, start_json>>),
         start_json |-> start_json,
         end_json |-> end_json,
         ok |-> parsed.ok,
         pretty |-> IF parsed.ok THEN call("json_dumps", <<parsed.v, 0>>) ELSE <<>>]

(***************************************************************************)
(* format_all (src/SQLFormatter.py:50-96) and the dispatch table           *)
(* (src/SQLFormatter.py:12-38).                                            *)
(***************************************************************************)
L_CREATE_TABLE == <<"C", "R", "E", "A", "T", "E", " ", "T", "A", "B", "L", "E">>

L_ALTER_TABLE == <<"A", "L", "T", "E", "R", " ", "T", "A", "B", "L", "E">>

L_DROP_TABLE == <<"D", "R", "O", "P", " ", "T", "A", "B", "L", "E">>

L_DROP_INDEX == <<"D", "R", "O", "P", " ", "I", "N", "D", "E", "X">>

L_comment_open == <<"/", "*">>

L_comment_close == <<"*", "/">>

L_dashes == <<"-", "-">>

L_blank_line == <<"\n", "\n">>

\* ;\s*\n matched at index i: the index after the match, or 0.  \s* gives
\* back down to the last newline of the whitespace after the semicolon
separator_at(str, i) ==
    LET w == SkipWs(str, i + 1)
        newlines == {k \in (i + 1)..(w - 1) : str[k] = "\n"}
    IN  IF LitAt(str, i, <<";">>) /\ newlines # {} THEN Max(newlines) + 1 ELSE 0

\* re.split(r";\s*\n", sql, flags=re.DOTALL)
RECURSIVE split_statements(_)
split_statements(str) ==
    LET i == First({k \in 1..Len(str) : call("separator_at", <<str, k>>) # 0})
    IN  IF i = 0 THEN <<str>>
        ELSE <<SubSeq(str, 1, i - 1)>> \o call("split_statements", <<From(str, call("separator_at", <<str, i>>))>>)

\* ^(?:\s*(?:/\*.*?\*/|--[^\n]*))* matched from index i: the index after
\* the match
RECURSIVE leading_comments_end(_, _)
leading_comments_end(str, i) ==
    LET a == SkipWs(str, i)
        close == First({k \in (a + 2)..Len(str) : LitAt(str, k, L_comment_close)})
        eol == Min({k \in a..Len(str) : str[k] = "\n"} \cup {Len(str) + 1})
    IN  IF LitAt(str, a, L_comment_open) /\ close # 0
        THEN call("leading_comments_end", <<str, close + Len(L_comment_close)>>)
        ELSE IF LitAt(str, a, L_dashes) THEN call("leading_comments_end", <<str, eol>>)
        ELSE i

\* cleaned = re.sub(r"^(?:\s*(?:/\*.*?\*/|--[^\n]*))*", "", part_content, ...)
cleaned(part_content) == From(part_content, call("leading_comments_end", <<part_content, 1>>))

\* INSERT_SELECT_PATTERN.search(subject)
INSERT_SELECT_PATTERN(subject) ==
    \E i \in 1..Len(subject) :
        LET m == call("insert_into_at", <<subject, i>>)
            f == SkipWs(subject, m.to)
        IN  /\ m.ok
            /\ LitAt(subject, f, <<"(">>)
            /\ \E k \in (f + 1)..Len(subject) :
                  /\ subject[k] = ")"
                  /\ LitAtI(subject, SkipWs(subject, k + 1), L_SELECT)
                  /\ WordBoundary(subject, SkipWs(subject, k + 1) + Len(L_SELECT))

\* INSERT_INTO_PATTERN.search(subject)
INSERT_INTO_PATTERN(subject) ==
    LET a == Len(L_INSERT) + 1
    IN  LitAtI(subject, 1, L_INSERT) /\ SkipWs(subject, a) > a
            /\ LitAtI(subject, SkipWs(subject, a), L_INTO)

\* SET_PATTERN.search(subject)
SET_PATTERN(subject) ==
    LET a == Len(L_SET) + 1
        b == SkipWs(subject, a)
        c == Min({k \in b..Len(subject) : ~(IsWordChar(subject[k]) \/ subject[k] = "@")}
                 \cup {Len(subject) + 1})
        d == SkipWs(subject, c)
    IN  LitAtI(subject, 1, L_SET) /\ b > a /\ c > b
            /\ d <= Len(subject) /\ subject[d] \in {":", "="}

CREATE_TABLE_PATTERN(subject) == LitAtI(subject, 1, L_CREATE_TABLE)

ALTER_TABLE_PATTERN(subject) == LitAtI(subject, 1, L_ALTER_TABLE)

UPDATE_PATTERN(subject) == LitAtI(subject, 1, L_UPDATE)

DELETE_FROM_PATTERN(subject) == LitAtI(subject, 1, L_DELETE_FROM)

DROP_PATTERN(subject) == LitAtI(subject, 1, L_DROP_TABLE) \/ LitAtI(subject, 1, L_DROP_INDEX)

\* the method names of _DISPATCH_MAP, in its order
_DISPATCH_MAP ==
    <<"format_insert_select_block", "format_insert_values_block", "format_set_block",
      "format_create_table", "format_alter_table", "format_update_block",
      "format_delete_block", "format_simple_single_line">>

\* pattern.search(subject) for the pattern of the k-th entry of _DISPATCH_MAP
pattern_search(k, subject) ==
    CASE k = 1 -> call("INSERT_SELECT_PATTERN", <<subject>>)
      [] k = 2 -> call("INSERT_INTO_PATTERN", <<subject>>)
      [] k = 3 -> call("SET_PATTERN", <<subject>>)
      [] k = 4 -> call("CREATE_TABLE_PATTERN", <<subject>>)
      [] k = 5 -> call("ALTER_TABLE_PATTERN", <<subject>>)
      [] k = 6 -> call("UPDATE_PATTERN", <<subject>>)
      [] k = 7 -> call("DELETE_FROM_PATTERN", <<subject>>)
      [] k = 8 -> call("DROP_PATTERN", <<subject>>)

\* the dispatch loop: the method name of the first entry whose pattern is
\* found, in cleaned for INSERT_SELECT_PATTERN and in cleaned.upper() for the
\* others, or "None"
dispatch(part_content) ==
    LET subject(k) == IF k = 1 THEN call("cleaned", <<part_content>>) ELSE call("upper", <<call("cleaned", <<part_content>>)>>)
        k == First({j \in 1..Len(_DISPATCH_MAP) : call("pattern_search", <<j, subject(j)>>)})
    IN  IF k = 0 THEN "None" ELSE _DISPATCH_MAP[k]

\* getattr(SQLFormatter, handler_name)(sql)
call_handler(handler_name, sql) ==
    CASE handler_name = "format_insert_select_block" -> call("format_insert_select_block", <<sql>>)
      [] handler_name = "format_insert_values_block" -> call("format_insert_values_block", <<sql>>)
      [] handler_name = "format_set_block" -> call("format_set_block", <<sql>>)
      [] handler_name = "format_create_table" -> call("format_create_table", <<sql>>)
      [] handler_name = "format_alter_table" -> call("format_alter_table", <<sql>>)
      [] handler_name = "format_update_block" -> call("format_update_block", <<sql>>)
      [] handler_name = "format_delete_block" -> call("format_delete_block", <<sql>>)
      [] handler_name = "format_simple_single_line" -> call("format_simple_single_line", <<sql>>)

\* a call that ended by raising
IsException(value) == value \in {IndexError, ValueError}

\* formatted_part as line 92 leaves it: the final semicolons all kept
keep_final_semicolons(str) == str

\* re.sub(r";{2,}$", ";", str): $ is the end or the newline that ends str
collapse_final_semicolons(str) ==
    LET e == IF str # <<>> /\ str[Len(str)] = "\n" THEN Len(str) - 1 ELSE Len(str)
        b == Max({k \in 0..e : k = 0 \/ str[k] # ";"}) + 1
    IN  IF e - b + 1 >= 2 THEN SubSeq(str, 1, b - 1) \o <<";">> \o From(str, e + 1)
        ELSE str

\* the body of the loop after the dispatch, lines 84-93: the block of the
\* fragment, or the exception its formatter raises
format_part(part_content, handler_name, pretty_json) ==
    LET handled == call("call_handler", <<handler_name, Append(part_content, ";")>>)
        formatted_part ==
            IF handler_name = "None"
            THEN IF endswith(part_content, <<";">>) THEN part_content
                 ELSE Append(part_content, ";")
            ELSE IF IsException(handled) THEN handled
            ELSE IF handler_name = "format_update_block" /\ pretty_json
            THEN call("_format_embedded_json", <<handled>>)
            ELSE handled
    IN  IF IsException(formatted_part) THEN formatted_part
        ELSE call("collapse_final_semicolons", <<call("format_case_expression", <<formatted_part>>)>>)

\* "\n".join(formatted_blocks): the blocks a line apart, no blank line
join_lines(formatted_blocks) == call("join", <<<<"\n">>, formatted_blocks>>)

\* "\n\n".join(formatted_blocks)
join_blocks(formatted_blocks) == call("join", <<L_blank_line, formatted_blocks>>)

\* the loop of format_all from the i-th part on
RECURSIVE format_parts(_, _, _, _)
format_parts(parts, i, formatted_blocks, pretty_json) ==
    IF i > Len(parts) THEN call("join_blocks", <<formatted_blocks>>)
    ELSE IF call("strip", <<parts[i]>>) = <<>> THEN call("format_parts", <<parts, i + 1, formatted_blocks, pretty_json>>)
    ELSE LET part_content == call("strip", <<parts[i]>>)
             formatted_part == call("format_part", <<part_content, call("dispatch", <<part_content>>), pretty_json>>)
         IN  IF IsException(formatted_part) THEN formatted_part
             ELSE call("format_parts", <<parts, i + 1, Append(formatted_blocks, formatted_part),
                               pretty_json>>)

format_all(sql, pretty_json) ==
    LET parts == call("split_statements", <<call("strip", <<sql>>)>>)
    IN  IF Len(parts) = 1 /\ call("strip", <<parts[1]>>) = <<>> THEN <<>>
        ELSE call("format_parts", <<parts, 1, <<>>, pretty_json>>)

(***************************************************************************)
(* _apply_filter and _format_with_optional_chunks (src/gui_app.py:357-417) *)
(* and the texts of format_sql_from_input (src/gui_app.py:419-446).        *)
(***************************************************************************)
L_unclosed_group ==
    <<"(">>

L_too_many_repeats ==
    <<"a", "{", "4", "2", "9", "4", "9", "6", "7", "2", "9", "6", "}">>

L_Invalid_filter_regex_ ==
    <<"I", "n", "v", "a", "l", "i", "d", " ", "f", "i", "l", "t", "e", "r",
     " ", "r", "e", "g", "e", "x", ":", " ">>

L_missing_paren ==
    <<"m", "i", "s", "s", "i", "n", "g", " ", ")", ",", " ", "u", "n", "t",
     "e", "r", "m", "i", "n", "a", "t", "e", "d", " ", "s", "u", "b", "p",
     "a", "t", "t", "e", "r", "n", " ", "a", "t", " ", "p", "o", "s", "i",
     "t", "i", "o", "n", " ", "0">>

L_Critical_error_ ==
    <<CrossMark, " ", "C", "r", "i", "t", "i", "c", "a", "l", " ", "e",
     "r", "r", "o", "r", " ", "d", "u", "r", "i", "n", "g", " ", "f", "o",
     "r", "m", "a", "t", "t", "i", "n", "g", ":", " ">>

L_Please_check ==
    <<"\n", "\n", "P", "l", "e", "a", "s", "e", " ", "c", "h", "e", "c",
     "k", " ", "t", "h", "e", " ", "i", "n", "p", "u", "t", " ", "S", "Q",
     "L", " ", "o", "r", " ", "r", "e", "p", "o", "r", "t", " ", "t", "h",
     "i", "s", " ", "b", "u", "g", ".">>

L_list_index_out_of_range ==
    <<"l", "i", "s", "t", " ", "i", "n", "d", "e", "x", " ", "o", "u", "t",
     " ", "o", "f", " ", "r", "a", "n", "g", "e">>

L_max_arg_is_empty ==
    <<"m", "a", "x", "(", ")", " ", "a", "r", "g", " ", "i", "s", " ", "a",
     "n", " ", "e", "m", "p", "t", "y", " ", "s", "e", "q", "u", "e", "n",
     "c", "e">>

\* re.compile(pattern) for the patterns of the model: an unclosed group is
\* no regular expression (re.error), a repetition count above the engine's
\* MAXREPEAT raises OverflowError, and the others are a literal, anchored
\* at the start of the line by a leading ^ or not
re_compile(pattern) ==
    IF pattern = L_unclosed_group
    THEN [raises |-> "re.error", message |-> L_missing_paren]
    ELSE IF pattern = L_too_many_repeats
    THEN [raises |-> "OverflowError", message |-> <<>>]
    ELSE IF startswith(pattern, <<"^">>)
    THEN [raises |-> "None", anchored |-> TRUE, literal |-> From(pattern, 2)]
    ELSE [raises |-> "None", anchored |-> FALSE, literal |-> pattern]

\* compiled.subn("", line) for an unanchored literal: every occurrence from
\* the left is removed and counted
RECURSIVE remove_literal(_, _)
remove_literal(literal, line) ==
    LET i == First({k \in 1..Len(line) : LitAt(line, k, literal)})
    IN  IF i = 0 THEN [new_line |-> line, count |-> 0]
        ELSE LET rest == call("remove_literal", <<literal, From(line, i + Len(literal))>>)
             IN  [new_line |-> SubSeq(line, 1, i - 1) \o rest.new_line, count |-> rest.count + 1]

\* compiled.subn("", line)
subn(compiled, line) ==
    IF ~compiled.anchored THEN call("remove_literal", <<compiled.literal, line>>)
    ELSE IF LitAt(line, 1, compiled.literal)
    THEN [new_line |-> From(line, Len(compiled.literal) + 1), count |-> 1]
    ELSE [new_line |-> line, count |-> 0]

\* a filter that is never applied: the text as it is, and no flags
_apply_filter_never(filter_text, sql) == [raises |-> "None", sql |-> sql, flags |-> <<>>]

\* _apply_filter with the text of the filter line edit.  The flags None are
\* the empty sequence: the list the code returns is never empty, and its
\* one reader tells None and the empty list apart nowhere
_apply_filter(filter_text, sql) ==
    LET pattern == call("strip", <<filter_text>>)
        compiled == call("re_compile", <<pattern>>)
        lines == call("splitlines", <<sql>>)
        subs == [i \in 1..Len(lines) |-> call("subn", <<compiled, lines[i]>>)]
        filtered_lines == [i \in 1..Len(lines) |->
                              IF subs[i].count > 0 THEN call("lstrip", <<subs[i].new_line>>)
                              ELSE subs[i].new_line]
        match_flags == [i \in 1..Len(lines) |-> subs[i].count > 0]
        any_match == \E i \in 1..Len(lines) : match_flags[i]
    IN  IF pattern = <<>> THEN [raises |-> "None", sql |-> sql, flags |-> <<>>]
        ELSE IF compiled.raises = "re.error"
        THEN [raises |-> "ValueError", message |-> L_Invalid_filter_regex_ \o compiled.message]
        ELSE IF compiled.raises # "None" THEN [raises |-> compiled.raises]
        ELSE [raises |-> "None",
              sql |-> call("join", <<<<"\n">>, filtered_lines>>),
              flags |-> IF any_match THEN match_flags ELSE <<>>]

\* "\n".join(current_lines).strip() appended to the statements if not empty
flush(statements, current_lines) ==
    LET chunk == call("strip", <<call("join", <<<<"\n">>, current_lines>>)>>)
    IN  IF current_lines = <<>> \/ chunk = <<>> THEN statements ELSE Append(statements, chunk)

\* a loop that starts no new statement at a flagged line
RECURSIVE chunk_unsplit(_, _, _, _, _)
chunk_unsplit(filtered_lines, filter_flags, i, statements, current_lines) ==
    call("flush", <<statements, filtered_lines>>)

\* the loop over zip(filtered_lines, filter_flags) from the i-th pair on, and
\* the flush after it
RECURSIVE chunk_statements(_, _, _, _, _)
chunk_statements(filtered_lines, filter_flags, i, statements, current_lines) ==
    IF i > Len(filtered_lines) \/ i > Len(filter_flags)
    THEN call("flush", <<statements, current_lines>>)
    ELSE IF filter_flags[i] /\ current_lines # <<>>
    THEN call("chunk_statements", <<filtered_lines, filter_flags, i + 1,
                                    call("flush", <<statements, current_lines>>),
                                    <<filtered_lines[i]>>>>)
    ELSE call("chunk_statements", <<filtered_lines, filter_flags, i + 1, statements,
                                    Append(current_lines, filtered_lines[i])>>)

\* the texts _format_with_optional_chunks hands to format_all, in order, and
\* whether they are the statements of the chunks or the whole text
format_all_arguments(sql_text, filter_flags) ==
    LET filtered_lines == call("splitlines", <<sql_text>>)
        statements == call("chunk_statements", <<filtered_lines, filter_flags, 1, <<>>, <<>>>>)
    IN  IF filter_flags = <<>> THEN [chunked |-> FALSE, texts |-> <<sql_text>>]
        ELSE IF Len(filtered_lines) # Len(filter_flags) THEN [chunked |-> FALSE, texts |-> <<sql_text>>]
        ELSE IF statements = <<>> THEN [chunked |-> FALSE, texts |-> <<sql_text>>]
        ELSE [chunked |-> TRUE, texts |-> statements]

\* _format_with_optional_chunks: what it returns or raises, and the
\* arguments of the format_all calls it made
_format_with_optional_chunks(sql_text, filter_flags, pretty) ==
    LET plan == call("format_all_arguments", <<sql_text, filter_flags>>)
        formatted_chunks == [i \in 1..Len(plan.texts) |->
                                call("format_all", <<plan.texts[i], pretty>>)]
        raised == First({i \in 1..Len(plan.texts) : IsException(formatted_chunks[i])})
    IN  IF raised # 0
        THEN [out |-> formatted_chunks[raised], calls |-> SubSeq(plan.texts, 1, raised)]
        ELSE [out |-> call("join", <<L_blank_line, formatted_chunks>>), calls |-> plan.texts]

\* str(e) of the exceptions of the formatter
str_of_exception(e) ==
    IF e = IndexError THEN L_list_index_out_of_range ELSE L_max_arg_is_empty

\* the text format_sql_from_input shows for an exception of the formatter
critical_error(e) == L_Critical_error_ \o call("str_of_exception", <<e>>) \o L_Please_check

(***************************************************************************)
(* The operators above apply one another through call, so that in TLC's    *)
(* account of a step each of them appears once: call("strip", <<str>>) is  *)
(* strip(str).                                                             *)
(***************************************************************************)
call(op, args) ==
    CASE op = "lstrip" -> lstrip(args[1])
      [] op = "rstrip" -> rstrip(args[1])
      [] op = "strip" -> strip(args[1])
      [] op = "join" -> join(args[1], args[2])
      [] op = "upper" -> upper(args[1])
      [] op = "str_of_int" -> str_of_int(args[1])
      [] op = "split_char" -> split_char(args[1], args[2])
      [] op = "strip_each" -> strip_each(args[1])
      [] op = "scan_char" -> scan_char(args[1], args[2])
      [] op = "scan_finish" -> scan_finish(args[1], args[2])
      [] op = "scan_from" -> scan_from(args[1], args[2], args[3])
      [] op = "smart_split_csv" -> smart_split_csv(args[1])
      [] op = "insert_into_at" -> insert_into_at(args[1], args[2])
      [] op = "table_m" -> table_m(args[1])
      [] op = "insert_columns_at" -> insert_columns_at(args[1], args[2], args[3])
      [] op = "cols_m" -> cols_m(args[1])
      [] op = "values_block_at" -> values_block_at(args[1], args[2])
      [] op = "values_block_m" -> values_block_m(args[1])
      [] op = "remove_block_comments" -> remove_block_comments(args[1])
      [] op = "row_separator_at" -> row_separator_at(args[1], args[2])
      [] op = "row_parts_with_parens" -> row_parts_with_parens(args[1])
      [] op = "individual_rows" -> individual_rows(args[1], args[2])
      [] op = "collapse_newline_runs" -> collapse_newline_runs(args[1])
      [] op = "with_commas" -> with_commas(args[1])
      [] op = "value_lines" -> value_lines(args[1], args[2])
      [] op = "row_open" -> row_open(args[1])
      [] op = "format_row" -> format_row(args[1], args[2], args[3], args[4], args[5])
      [] op = "format_rows" -> format_rows(args[1], args[2], args[3], args[4], args[5])
      [] op = "insert_header" -> insert_header(args[1], args[2], args[3])
      [] op = "close_last_line" -> close_last_line(args[1])
      [] op = "format_insert_values_block" -> format_insert_values_block(args[1])
      [] op = "collapse_runs" -> collapse_runs(args[1])
      [] op = "_collapse_whitespace" -> _collapse_whitespace(args[1])
      [] op = "rstrip_semicolons" -> rstrip_semicolons(args[1])
      [] op = "_trim_semicolon" -> _trim_semicolon(args[1])
      [] op = "quotes_from" -> quotes_from(args[1], args[2])
      [] op = "split_outside_quotes" -> split_outside_quotes(args[1])
      [] op = "splitlines" -> splitlines(args[1])
      [] op = "when_then_tries" -> when_then_tries(args[1], args[2])
      [] op = "when_then_at" -> when_then_at(args[1], args[2])
      [] op = "when_then_pairs" -> when_then_pairs(args[1], args[2])
      [] op = "else_at" -> else_at(args[1], args[2])
      [] op = "else_match" -> else_match(args[1])
      [] op = "in_match" -> in_match(args[1])
      [] op = "when_lines" -> when_lines(args[1])
      [] op = "all_when_lines" -> all_when_lines(args[1])
      [] op = "_case_repl" -> _case_repl(args[1])
      [] op = "case_block_at" -> case_block_at(args[1], args[2])
      [] op = "format_case_expression" -> format_case_expression(args[1])
      [] op = "update_head" -> update_head(args[1])
      [] op = "update_tail_at" -> update_tail_at(args[1], args[2])
      [] op = "assignment_lines" -> assignment_lines(args[1], args[2])
      [] op = "all_assignment_lines" -> all_assignment_lines(args[1], args[2])
      [] op = "join_last_semicolon" -> join_last_semicolon(args[1])
      [] op = "format_update_block" -> format_update_block(args[1])
      [] op = "format_simple_single_line" -> format_simple_single_line(args[1])
      [] op = "delete_match" -> delete_match(args[1])
      [] op = "split_where" -> split_where(args[1])
      [] op = "and_at" -> and_at(args[1], args[2])
      [] op = "split_and" -> split_and(args[1])
      [] op = "format_delete_block" -> format_delete_block(args[1])
      [] op = "set_line_end" -> set_line_end(args[1], args[2])
      [] op = "set_match" -> set_match(args[1])
      [] op = "ljust" -> ljust(args[1], args[2])
      [] op = "format_set_block" -> format_set_block(args[1])
      [] op = "split_outside_parens" -> split_outside_parens(args[1])
      [] op = "indented_list" -> indented_list(args[1])
      [] op = "create_table_match" -> create_table_match(args[1])
      [] op = "format_create_table" -> format_create_table(args[1])
      [] op = "alter_table_match" -> alter_table_match(args[1])
      [] op = "format_alter_table" -> format_alter_table(args[1])
      [] op = "select_tries" -> select_tries(args[1], args[2])
      [] op = "select_m" -> select_m(args[1])
      [] op = "select_cols_m" -> select_cols_m(args[1])
      [] op = "rest_from" -> rest_from(args[1])
      [] op = "format_insert_select_block" -> format_insert_select_block(args[1])
      [] op = "encode_unicode_escape" -> encode_unicode_escape(args[1], args[2])
      [] op = "scan_string" -> scan_string(args[1], args[2], args[3])
      [] op = "float_repr" -> float_repr(args[1], args[2], args[3], args[4])
      [] op = "scan_number" -> scan_number(args[1], args[2])
      [] op = "dict_of" -> dict_of(args[1])
      [] op = "scan_members" -> scan_members(args[1], args[2], args[3])
      [] op = "scan_elements" -> scan_elements(args[1], args[2], args[3])
      [] op = "scan_once" -> scan_once(args[1], args[2])
      [] op = "json_loads" -> json_loads(args[1])
      [] op = "json_dumps" -> json_dumps(args[1], args[2])
      [] op = "find_balanced_from" -> find_balanced_from(args[1], args[2], args[3], args[4], args[5])
      [] op = "find_balanced_json" -> find_balanced_json(args[1], args[2])
      [] op = "json_candidate" -> json_candidate(args[1], args[2])
      [] op = "embedded_json_from" -> embedded_json_from(args[1], args[2])
      [] op = "_format_embedded_json" -> _format_embedded_json(args[1])
      [] op = "separator_at" -> separator_at(args[1], args[2])
      [] op = "split_statements" -> split_statements(args[1])
      [] op = "leading_comments_end" -> leading_comments_end(args[1], args[2])
      [] op = "cleaned" -> cleaned(args[1])
      [] op = "INSERT_SELECT_PATTERN" -> INSERT_SELECT_PATTERN(args[1])
      [] op = "INSERT_INTO_PATTERN" -> INSERT_INTO_PATTERN(args[1])
      [] op = "SET_PATTERN" -> SET_PATTERN(args[1])
      [] op = "CREATE_TABLE_PATTERN" -> CREATE_TABLE_PATTERN(args[1])
      [] op = "ALTER_TABLE_PATTERN" -> ALTER_TABLE_PATTERN(args[1])
      [] op = "UPDATE_PATTERN" -> UPDATE_PATTERN(args[1])
      [] op = "DELETE_FROM_PATTERN" -> DELETE_FROM_PATTERN(args[1])
      [] op = "DROP_PATTERN" -> DROP_PATTERN(args[1])
      [] op = "pattern_search" -> pattern_search(args[1], args[2])
      [] op = "dispatch" -> dispatch(args[1])
      [] op = "call_handler" -> call_handler(args[1], args[2])
      [] op = "collapse_final_semicolons" -> collapse_final_semicolons(args[1])
      [] op = "format_part" -> format_part(args[1], args[2], args[3])
      [] op = "join_blocks" -> join_blocks(args[1])
      [] op = "format_parts" -> format_parts(args[1], args[2], args[3], args[4])
      [] op = "match_start" -> match_start(args[1], args[2])
      [] op = "iteration" -> iteration(args[1], args[2])
      [] op = "format_all" -> format_all(args[1], args[2])
      [] op = "re_compile" -> re_compile(args[1])
      [] op = "remove_literal" -> remove_literal(args[1], args[2])
      [] op = "subn" -> subn(args[1], args[2])
      [] op = "_apply_filter" -> _apply_filter(args[1], args[2])
      [] op = "flush" -> flush(args[1], args[2])
      [] op = "chunk_statements" -> chunk_statements(args[1], args[2], args[3], args[4], args[5])
      [] op = "format_all_arguments" -> format_all_arguments(args[1], args[2])
      [] op = "_format_with_optional_chunks" -> _format_with_optional_chunks(args[1], args[2], args[3])
      [] op = "str_of_exception" -> str_of_exception(args[1])
      [] op = "critical_error" -> critical_error(args[1])

(***************************************************************************)
(* The inputs of the smart_split_csv specification.                        *)
(***************************************************************************)
CsvAlphabet == {"a", ",", "'", "(", ")", "\\", " ", "\"", "{", "}"}

RECURSIVE StringsOver(_, _)
StringsOver(alphabet, n) ==
    IF n = 0 THEN {<<>>}
    ELSE LET shorter == StringsOver(alphabet, n - 1)
         IN  shorter \cup {Append(str, c) : str \in {x \in shorter : Len(x) = n - 1},
                                            c \in alphabet}

\* every list of tokens whose join with ", " is str
RECURSIVE Decompositions(_)
Decompositions(str) ==
    {<<str>>} \cup
    UNION {{<<SubSeq(str, 1, i - 1)>> \o rest : rest \in Decompositions(From(str, i + 2))}
           : i \in {j \in 1..(Len(str) - 1) : str[j] = "," /\ str[j + 1] = " "}}

(***************************************************************************)
(* smart_split_csv as a process: one step per character.                   *)
(***************************************************************************)
InitCsv ==
    /\ s \in StringsOver(CsvAlphabet, MaxLen)
    /\ tokens \in Decompositions(s)
    /\ pc = "scan"
    /\ pos = 1
    /\ scan = scan_init
    /\ split_at = {}
    /\ out = <<>>
    /\ arg_sql = <<>>
    /\ format_all_idle
    /\ stmt_idle
    /\ app_idle

ScanChar ==
    /\ pc = "scan"
    /\ pos <= Len(s)
    /\ scan' = call("scan_char", <<scan, s[pos]>>)
    /\ split_at' = IF Len(scan'.parts) > Len(scan.parts) THEN split_at \cup {pos}
                   ELSE split_at
    /\ pos' = pos + 1
    /\ UNCHANGED <<pc, s, tokens, out, arg_sql, format_all_vars, stmt_vars, app_vars>>

ScanReturn ==
    /\ pc = "scan"
    /\ pos > Len(s)
    /\ out' = call("scan_finish", <<scan, s>>)
    /\ pc' = "done"
    /\ UNCHANGED <<csv_vars, arg_sql, format_all_vars, stmt_vars, app_vars>>

NextCsv == ScanChar \/ ScanReturn

SpecCsv == InitCsv /\ [][NextCsv]_vars

(***************************************************************************)
(* The inputs of the format_all specification: up to MaxFragments          *)
(* statements, each followed by a semicolon and separated by a newline, and *)
(* the empty and a whitespace-only argument.                               *)
(***************************************************************************)
Fragments ==
    <<<<"I", "N", "S", "E", "R", "T", " ", "I", "N", "T", "O", " ", "f", "o", "o", "(", "b", "a", "r", ",", " ", "b", "a", "z", ")", " ", "V", "A", "L", "U", "E", "S", "(", "1", ",", " ", "'", "q", "u", "x", "'", ")">>,
      <<"I", "N", "S", "E", "R", "T", " ", "I", "N", "T", "O", " ", "t", "(", "a", ",", " ", "b", ")", " ", "V", "A", "L", "U", "E", "S", "(", "1", ")">>,
      <<"I", "N", "S", "E", "R", "T", " ", "I", "N", "T", "O", " ", "t", "(", "a", ")", " ", "V", "A", "L", "U", "E", "S", "(", "C", "A", "S", "E", " ", "W", "H", "E", "N", " ", "x", " ", "T", "H", "E", "N", " ", "1", " ", "E", "N", "D", ",", " ", "2", ")">>,
      <<"U", "P", "D", "A", "T", "E", " ", "t", " ", "S", "E", "T", " ", "a", "=", "1", ",">>,
      <<"U", "P", "D", "A", "T", "E", " ", "t", " ", "S", "E", "T", " ", "a", " ", "=", " ", "1", ",", " ", "b", " ", "=", " ", "'", "x", "'", " ", "W", "H", "E", "R", "E", " ", "i", "d", " ", "=", " ", "5">>,
      <<"U", "P", "D", "A", "T", "E", " ", "t", " ", "S", "E", "T", " ", "d", " ", "=", " ", "'", "{", "\"", "a", "\"", ":", " ", " ", "1", "}", "'">>,
      <<"-", "-", " ", "c", "\n", "U", "P", "D", "A", "T", "E", " ", "t", " ", "S", "E", "T", " ", "a", "=", "1", ",", " ", "b", "=", "2">>,
      <<"/", "*", " ", "c", " ", "*", "/", "I", "N", "S", "E", "R", "T", " ", "I", "N", "T", "O", " ", "f", "o", "o", "(", "a", ")", " ", "V", "A", "L", "U", "E", "S", "(", "1", ")">>,
      <<"I", "N", "S", "E", "R", "T", " ", "I", "N", "T", "O", " ", "t", "(", "a", ",", " ", "b", ")", " ", "S", "E", "L", "E", "C", "T", " ", "x", ",", " ", "y", " ", "F", "R", "O", "M", " ", "u">>,
      <<"D", "E", "L", "E", "T", "E", " ", "F", "R", "O", "M", " ", "t", " ", "W", "H", "E", "R", "E", " ", "a", "=", "1", " ", "A", "N", "D", " ", "b", "=", "2">>,
      <<"S", "E", "T", " ", "@", "a", " ", "=", " ", "1">>,
      <<"C", "R", "E", "A", "T", "E", " ", "T", "A", "B", "L", "E", " ", "t", " ", "(", "a", " ", "I", "N", "T", ",", " ", "b", " ", "I", "N", "T", ")">>,
      <<"A", "L", "T", "E", "R", " ", "T", "A", "B", "L", "E", " ", "t", " ", "A", "D", "D", " ", "a", " ", "I", "N", "T", ",", " ", "D", "R", "O", "P", " ", "b">>,
      <<"D", "R", "O", "P", " ", " ", "T", "A", "B", "L", "E", " ", "t">>,
      <<"S", "E", "L", "E", "C", "T", " ", "1">>,
      <<" ">>,
      <<"S", "E", "L", "E", "C", "T", " ", "C", "A", "S", "E", " ", "W", "H", "E", "N", " ", "a", " ", "T", "H", "E", "N", " ", "1", " ", "E", "L", "S", "E", " ", "2", " ", "E", "N", "D", ";">>,
      <<"U", "P", "D", "A", "T", "E", " ", "t", " ", "S", "E", "T", " ", "s", " ", "=", " ", "C", "A", "S", "E", " ", "W", "H", "E", "N", " ", "a", "=", "1", " ", "T", "H", "E", "N", " ", "'", "x", "'", " ", "E", "N", "D">>,
      <<"s", "e", "l", "e", "c", "t", " ", "1", ";", " ", "\n", "\n", "s", "e", "l", "e", "c", "t", " ", "2">>,
      <<"i", "n", "s", "e", "r", "t", " ", "i", "n", "t", "o", " ", "t", "(", "a", ")", " ", "v", "a", "l", "u", "e", "s", "(", "1", ")">>,
      <<"U", "P", "D", "A", "T", "E", " ", "c", " ", "S", "E", "T", " ", "d", " ", "=", " ", "{", "\"", "a", "\"", ":", "1", "}", " ", "W", "H", "E", "R", "E", " ", "i", "d", " ", "=", " ", "5">>,
      <<"U", "P", "D", "A", "T", "E", " ", "c", " ", "S", "E", "T", " ", "d", " ", "=", " ", "'", "{", "\"", "a", "\"", ":", "1", "}", "'", " ", "W", "H", "E", "R", "E", " ", "i", "d", " ", "=", " ", "5">>,
      <<"U", "P", "D", "A", "T", "E", " ", "t", " ", "S", "E", "T", " ", "s", " ", "=", " ", "C", "A", "S", "E", " ", "W", "H", "E", "N", " ", "a", "=", "1", " ", "T", "H", "E", "N", " ", "'", "x", "'", " ", "E", "N", "D", ",", " ", "b", " ", "=", " ", "2">>,
      <<"S", "E", "T", " ", "@", "B", "B", " ", ":", "=", " ", "2">>,
      <<"S", "E", "L", "E", "C", "T", " ", "2", ";">>,
      <<"C", "R", "E", "A", "T", "E", " ", "I", "N", "D", "E", "X", " ", "i", " ", "O", "N", " ", "t", " ", "(", "a", ")">>,
      <<"C", "R", "E", "A", "T", "E", " ", "U", "N", "I", "Q", "U", "E", " ", "I", "N", "D", "E", "X", " ", "i", " ", "O", "N", " ", "u", " ", "(", "a", ",", " ", "b", ")">>>>

\* the argument written from the statements numbered by picks
input_of(picks) ==
    call("join", <<<<";", "\n">>, [i \in 1..Len(picks) |-> Fragments[picks[i]]]>>) \o <<";">>

Inputs ==
    {<<>>, <<" ", "\n">>}
    \cup {input_of(picks) :
            picks \in UNION {[1..n -> 1..Len(Fragments)] : n \in 1..MaxFragments}}

(***************************************************************************)
(* format_all as a process: the split, then one pass of the for loop per   *)
(* part, in two steps (dispatch, format), then the join.                   *)
(***************************************************************************)
Init ==
    /\ pc = "format_all"
    /\ arg_sql \in Inputs
    /\ arg_pretty_json \in BOOLEAN
    /\ loc_parts = <<>>
    /\ loc_index = 0
    /\ loc_part_content = <<>>
    /\ loc_handler_name = "None"
    /\ loc_formatted_blocks = <<>>
    /\ out = <<>>
    /\ csv_idle
    /\ stmt_idle
    /\ app_idle

\* lines 60-61
SplitStatements ==
    /\ pc = "format_all"
    /\ loc_parts' = call("split_statements", <<call("strip", <<arg_sql>>)>>)
    /\ pc' = "split"
    /\ UNCHANGED <<out, csv_vars, arg_sql, arg_pretty_json, loc_index, loc_part_content,
                   loc_handler_name, loc_formatted_blocks, stmt_vars, app_vars>>

\* lines 62-63
ReturnEmpty ==
    /\ pc = "split"
    /\ Len(loc_parts) = 1 /\ call("strip", <<loc_parts[1]>>) = <<>>
    /\ out' = <<>>
    /\ pc' = "returned"
    /\ UNCHANGED <<csv_vars, arg_sql, format_all_vars, stmt_vars, app_vars>>

\* lines 62, 64
StartLoop ==
    /\ pc = "split"
    /\ ~(Len(loc_parts) = 1 /\ call("strip", <<loc_parts[1]>>) = <<>>)
    /\ loc_formatted_blocks' = <<>>
    /\ loc_index' = 1
    /\ pc' = "loop"
    /\ UNCHANGED <<out, csv_vars, arg_sql, arg_pretty_json, loc_parts, loc_part_content,
                   loc_handler_name, stmt_vars, app_vars>>

\* lines 66-69
SkipEmptyPart ==
    /\ pc = "loop"
    /\ loc_index <= Len(loc_parts)
    /\ call("strip", <<loc_parts[loc_index]>>) = <<>>
    /\ loc_part_content' = <<>>
    /\ loc_index' = loc_index + 1
    /\ UNCHANGED <<pc, out, csv_vars, arg_sql, arg_pretty_json, loc_parts,
                   loc_handler_name, loc_formatted_blocks, stmt_vars, app_vars>>

\* lines 66-82
Dispatch ==
    /\ pc = "loop"
    /\ loc_index <= Len(loc_parts)
    /\ call("strip", <<loc_parts[loc_index]>>) # <<>>
    /\ loc_part_content' = call("strip", <<loc_parts[loc_index]>>)
    /\ loc_handler_name' = call("dispatch", <<call("strip", <<loc_parts[loc_index]>>)>>)
    /\ pc' = "format"
    /\ UNCHANGED <<out, csv_vars, arg_sql, arg_pretty_json, loc_parts, loc_index,
                   loc_formatted_blocks, stmt_vars, app_vars>>

\* lines 84-94
FormatPart ==
    /\ pc = "format"
    /\ LET formatted_part == call("format_part", <<loc_part_content, loc_handler_name, arg_pretty_json>>)
       IN  /\ ~IsException(formatted_part)
           /\ loc_formatted_blocks' = Append(loc_formatted_blocks, formatted_part)
    /\ loc_index' = loc_index + 1
    /\ pc' = "loop"
    /\ UNCHANGED <<out, csv_vars, arg_sql, arg_pretty_json, loc_parts, loc_part_content,
                   loc_handler_name, stmt_vars, app_vars>>

\* line 86: the formatter raises and format_all does not catch
RaiseFromFormatter ==
    /\ pc = "format"
    /\ LET formatted_part == call("format_part", <<loc_part_content, loc_handler_name, arg_pretty_json>>)
       IN  /\ IsException(formatted_part)
           /\ out' = formatted_part
    /\ pc' = "raised"
    /\ UNCHANGED <<csv_vars, arg_sql, format_all_vars, stmt_vars, app_vars>>

\* line 96
ReturnJoined ==
    /\ pc = "loop"
    /\ loc_index > Len(loc_parts)
    /\ out' = call("join_blocks", <<loc_formatted_blocks>>)
    /\ pc' = "returned"
    /\ UNCHANGED <<csv_vars, arg_sql, format_all_vars, stmt_vars, app_vars>>

Next ==
    \/ SplitStatements
    \/ ReturnEmpty
    \/ StartLoop
    \/ SkipEmptyPart
    \/ Dispatch
    \/ FormatPart
    \/ RaiseFromFormatter
    \/ ReturnJoined

Spec == Init /\ [][Next]_vars

(***************************************************************************)
(* The inputs of the format_insert_values_block specification: statements  *)
(* written from up to MaxCols column names and up to MaxRows rows of up to *)
(* MaxValues values.                                                       *)
(***************************************************************************)
ColumnNames == <<<<"a">>, <<"b">>, <<"c">>, <<"d">>>>

InsertValues == {<<"1">>, <<"'", "x", "'">>, <<"f", "(", "1", ")">>, <<"(", "2", ")">>}

L_INSERT_INTO_t_open == <<"I", "N", "S", "E", "R", "T", " ", "I", "N", "T", "O", " ", "t", "(">>

L_close_VALUES_ == <<")", " ", "V", "A", "L", "U", "E", "S", " ">>

SeqsUpTo(S, n) == UNION {[1..k -> S] : k \in 0..n}

\* the statement with the given columns and rows for table t
insert_statement(columns, value_rows) ==
    L_INSERT_INTO_t_open \o call("join", <<<<",", " ">>, columns>>) \o L_close_VALUES_
    \o call("join", <<<<",", " ">>,
            [r \in 1..Len(value_rows) |->
                <<"(">> \o call("join", <<<<",", " ">>, value_rows[r]>>) \o <<")">>]>>)
    \o <<";">>

(***************************************************************************)
(* format_insert_values_block as a process: the call and its return.       *)
(***************************************************************************)
InitInsert ==
    /\ stmt_cols \in {SubSeq(ColumnNames, 1, n) : n \in 1..MaxCols}
    /\ stmt_rows \in {rows \in SeqsUpTo(SeqsUpTo(InsertValues, MaxValues), MaxRows) :
                        rows # <<>>}
    /\ stmt_parts = <<>>
    /\ stmt_where = <<>>
    /\ arg_sql = insert_statement(stmt_cols, stmt_rows)
    /\ pc = "format_insert_values_block"
    /\ out = <<>>
    /\ csv_idle
    /\ format_all_idle
    /\ app_idle

ReturnInsert ==
    /\ pc = "format_insert_values_block"
    /\ ~IsException(call("format_insert_values_block", <<arg_sql>>))
    /\ out' = call("format_insert_values_block", <<arg_sql>>)
    /\ pc' = "returned"
    /\ UNCHANGED <<csv_vars, arg_sql, format_all_vars, stmt_vars, app_vars>>

NextInsert == ReturnInsert

SpecInsert == InitInsert /\ [][NextInsert]_vars

(***************************************************************************)
(* format_insert_values_block called with statements that hold an empty    *)
(* VALUES row, for zero columns and more.                                  *)
(***************************************************************************)
InitInsertEmpty ==
    /\ stmt_cols \in {SubSeq(ColumnNames, 1, n) : n \in 0..MaxCols}
    /\ stmt_rows \in {rows \in SeqsUpTo(SeqsUpTo(InsertValues, MaxValues), MaxRows) :
                        \E r \in 1..Len(rows) : rows[r] = <<>>}
    /\ stmt_parts = <<>>
    /\ stmt_where = <<>>
    /\ arg_sql = insert_statement(stmt_cols, stmt_rows)
    /\ pc = "format_insert_values_block"
    /\ out = <<>>
    /\ csv_idle
    /\ format_all_idle
    /\ app_idle

SpecInsertEmpty == InitInsertEmpty /\ [][NextInsert]_vars

(***************************************************************************)
(* The inputs of the _format_embedded_json specification: formatted UPDATE *)
(* statements with up to MaxParts single-quoted values, each a well-formed *)
(* object, a malformed one, or one without its closing brace.              *)
(***************************************************************************)
JsonCandidates ==
    {<<"{", "\"", "a", "\"", ":", "1", "}">>,
     <<"{", "}">>,
     <<"{", "a", "}">>,
     <<"{", "\"", "b", "\"", ":", "2">>,
     <<"x">>}

L_UPDATE_t_SET == <<"U", "P", "D", "A", "T", "E", " ", "t", "\n", " ", " ", "S", "E", "T", "\n">>

\* the formatted UPDATE statement that assigns the values to the columns
json_statement(values) ==
    L_UPDATE_t_SET
    \o call("join", <<<<",", "\n">>,
            [i \in 1..Len(values) |->
                INDENT_1 \o ColumnNames[i] \o <<" ", "=", " ", "'">> \o values[i] \o <<"'">>]>>)
    \o <<";">>

(***************************************************************************)
(* _format_embedded_json as a process: the call and its return.            *)
(***************************************************************************)
InitJson ==
    /\ stmt_parts \in {values \in SeqsUpTo(JsonCandidates, MaxParts) : values # <<>>}
    /\ stmt_where = <<>>
    /\ stmt_cols = <<>>
    /\ stmt_rows = <<>>
    /\ arg_sql = json_statement(stmt_parts)
    /\ pc = "_format_embedded_json"
    /\ out = <<>>
    /\ csv_idle
    /\ format_all_idle
    /\ app_idle

ReturnJson ==
    /\ pc = "_format_embedded_json"
    /\ out' = call("_format_embedded_json", <<arg_sql>>)
    /\ pc' = "returned"
    /\ UNCHANGED <<csv_vars, arg_sql, format_all_vars, stmt_vars, app_vars>>

NextJson == ReturnJson

SpecJson == InitJson /\ [][NextJson]_vars

(***************************************************************************)
(* The inputs of the format_update_block specification: UPDATE statements  *)
(* written from up to MaxParts assignments, whose values hold commas in a  *)
(* quoted string, a function call, a JSON literal and an IN list, with and *)
(* without a WHERE clause.                                                 *)
(***************************************************************************)
Assignments ==
    {<<"a", " ", "=", " ", "1">>,
     <<"b", " ", "=", " ", "'", "x", ",", " ", "y", "'">>,
     <<"c", " ", "=", " ", "f", "(", "1", ",", " ", "2", ")">>,
     <<"d", " ", "=", " ", "'", "{", "\"", "a", "\"", ":", "1", ",", "\"", "b", "\"", ":", "2", "}", "'">>,
     <<"g", " ", "=", " ", "x", " ", "I", "N", " ", "(", "1", ",", " ", "2", ")">>}

WhereConditions == {<<>>, <<"i", "d", " ", "I", "N", " ", "(", "1", ",", " ", "2", ")">>}

L_UPDATE_t_SET_ == <<"U", "P", "D", "A", "T", "E", " ", "t", " ", "S", "E", "T", " ">>

L__WHERE_ == <<" ", "W", "H", "E", "R", "E", " ">>

\* the statement with the given assignments and condition for table t
update_statement(assignments, condition) ==
    L_UPDATE_t_SET_ \o call("join", <<<<",", " ">>, assignments>>)
    \o (IF condition = <<>> THEN <<>> ELSE L__WHERE_ \o condition)
    \o <<";">>

(***************************************************************************)
(* format_update_block as a process: the call and its return.              *)
(***************************************************************************)
InitUpdate ==
    /\ stmt_parts \in {a \in SeqsUpTo(Assignments, MaxParts) : a # <<>>}
    /\ stmt_where \in WhereConditions
    /\ stmt_cols = <<>>
    /\ stmt_rows = <<>>
    /\ arg_sql = update_statement(stmt_parts, stmt_where)
    /\ pc = "format_update_block"
    /\ out = <<>>
    /\ csv_idle
    /\ format_all_idle
    /\ app_idle

ReturnUpdate ==
    /\ pc = "format_update_block"
    /\ ~IsException(call("format_update_block", <<arg_sql>>))
    /\ out' = call("format_update_block", <<arg_sql>>)
    /\ pc' = "returned"
    /\ UNCHANGED <<csv_vars, arg_sql, format_all_vars, stmt_vars, app_vars>>

NextUpdate == ReturnUpdate

SpecUpdate == InitUpdate /\ [][NextUpdate]_vars

(***************************************************************************)
(* The inputs of the format_case_expression specification: up to MaxWords  *)
(* pieces joined by one space, of the keywords CASE and END, WHEN and ELSE *)
(* branches, a WHEN with an IN list, and identifiers that hold the letters *)
(* of a keyword.                                                           *)
(***************************************************************************)
CaseWords ==
    {L_CASE,
     L_END,
     <<"W", "H", "E", "N", " ", "a", " ", "T", "H", "E", "N", " ", "b">>,
     <<"E", "L", "S", "E", " ", "c">>,
     <<"W", "H", "E", "N", " ", "x", " ", "I", "N", " ", "(", "1", ",", " ", "2", ")",
       " ", "T", "H", "E", "N", " ", "y">>,
     <<"s", "h", "o", "w", "c", "a", "s", "e">>,
     <<"f", "r", "i", "e", "n", "d">>}

(***************************************************************************)
(* format_case_expression as a process: the call and its return.           *)
(***************************************************************************)
InitCase ==
    /\ stmt_parts \in SeqsUpTo(CaseWords, MaxWords)
    /\ stmt_where = <<>>
    /\ stmt_cols = <<>>
    /\ stmt_rows = <<>>
    /\ arg_sql = call("join", <<<<" ">>, stmt_parts>>)
    /\ pc = "format_case_expression"
    /\ out = <<>>
    /\ csv_idle
    /\ format_all_idle
    /\ app_idle

ReturnCase ==
    /\ pc = "format_case_expression"
    /\ out' = call("format_case_expression", <<arg_sql>>)
    /\ pc' = "returned"
    /\ UNCHANGED <<csv_vars, arg_sql, format_all_vars, stmt_vars, app_vars>>

NextCase == ReturnCase

SpecCase == InitCase /\ [][NextCase]_vars

(***************************************************************************)
(* The inputs of the format_set_block specification: blocks of up to       *)
(* MaxParts lines, each written from a left-hand side, an operator and a   *)
(* right-hand side, or holding another statement.                          *)
(***************************************************************************)
SetLines ==
    {[text |-> <<"S", "E", "T", " ", "@", "a", " ", "=", " ", "1", ";">>,
      lhs |-> <<"@", "a">>, op |-> <<"=">>, rhs |-> <<"1">>],
     [text |-> <<"s", "e", "t", " ", " ", "@", "b", "b", ":", "=", "x", " ", " ", "y", " ", ";">>,
      lhs |-> <<"@", "b", "b">>, op |-> <<":", "=">>, rhs |-> <<"x", " ", " ", "y">>],
     [text |-> <<"S", "E", "T", " ", "c", " ", " ", "=", "=", " ", " ", "3", ";">>,
      lhs |-> <<"c">>, op |-> <<"=", "=">>, rhs |-> <<"3">>],
     [text |-> <<"S", "E", "T", " ", "d", " ", "=", " ", "{", "\"", "k", "\"", ":", "1", "}", ";">>,
      lhs |-> <<"d">>, op |-> <<"=">>, rhs |-> <<"{", "\"", "k", "\"", ":", "1", "}">>],
     [text |-> <<"S", "E", "T", " ", "e", " ", "=", " ", "[", "1", "]">>,
      lhs |-> <<"e">>, op |-> <<"=">>, rhs |-> <<"[", "1", "]">>],
     [text |-> <<"S", "E", "L", "E", "C", "T", " ", "1", ";">>,
      lhs |-> <<>>, op |-> <<>>, rhs |-> <<>>]}

(***************************************************************************)
(* format_set_block as a process: the call, and its return or the          *)
(* exception it raises.                                                    *)
(***************************************************************************)
InitSet ==
    /\ stmt_parts \in SeqsUpTo(SetLines, MaxParts)
    /\ stmt_where = <<>>
    /\ stmt_cols = <<>>
    /\ stmt_rows = <<>>
    /\ arg_sql = call("join", <<<<"\n">>, [i \in 1..Len(stmt_parts) |-> stmt_parts[i].text]>>)
    /\ pc = "format_set_block"
    /\ out = <<>>
    /\ csv_idle
    /\ format_all_idle
    /\ app_idle

ReturnSet ==
    /\ pc = "format_set_block"
    /\ ~IsException(call("format_set_block", <<arg_sql>>))
    /\ out' = call("format_set_block", <<arg_sql>>)
    /\ pc' = "returned"
    /\ UNCHANGED <<csv_vars, arg_sql, format_all_vars, stmt_vars, app_vars>>

\* max() of an empty sequence, line 427
RaiseFromSet ==
    /\ pc = "format_set_block"
    /\ IsException(call("format_set_block", <<arg_sql>>))
    /\ pc' = "raised"
    /\ UNCHANGED <<out, csv_vars, arg_sql, format_all_vars, stmt_vars, app_vars>>

NextSet == ReturnSet \/ RaiseFromSet

SpecSet == InitSet /\ [][NextSet]_vars

(***************************************************************************)
(* The inputs of the format_alter_table specification: ALTER TABLE         *)
(* statements written from up to MaxParts actions, one of them with a      *)
(* comma inside parentheses.                                               *)
(***************************************************************************)
AlterActions ==
    {<<"A", "D", "D", " ", "a", " ", "I", "N", "T">>,
     <<"D", "R", "O", "P", " ", "b">>,
     <<"A", "D", "D", " ", "x", " ", "D", "E", "C", "I", "M", "A", "L", "(", "1", "0", ",", " ", "2", ")">>,
     <<"R", "E", "N", "A", "M", "E", " ", "T", "O", " ", "u">>,
     <<"M", "O", "D", "I", "F", "Y", " ", "c", " ", "I", "N", "T">>}

L_ALTER_TABLE_t == <<"A", "L", "T", "E", "R", " ", "T", "A", "B", "L", "E", " ", "t">>

\* the statement with the given actions for table t
alter_statement(actions) ==
    L_ALTER_TABLE_t \o <<" ">> \o call("join", <<<<",", " ">>, actions>>) \o <<";">>

(***************************************************************************)
(* format_alter_table as a process: the call and its return.               *)
(***************************************************************************)
InitAlter ==
    /\ stmt_parts \in {a \in SeqsUpTo(AlterActions, MaxParts) : a # <<>>}
    /\ stmt_where = <<>>
    /\ stmt_cols = <<>>
    /\ stmt_rows = <<>>
    /\ arg_sql = alter_statement(stmt_parts)
    /\ pc = "format_alter_table"
    /\ out = <<>>
    /\ csv_idle
    /\ format_all_idle
    /\ app_idle

ReturnAlter ==
    /\ pc = "format_alter_table"
    /\ out' = call("format_alter_table", <<arg_sql>>)
    /\ pc' = "returned"
    /\ UNCHANGED <<csv_vars, arg_sql, format_all_vars, stmt_vars, app_vars>>

NextAlter == ReturnAlter

SpecAlter == InitAlter /\ [][NextAlter]_vars

(***************************************************************************)
(* The inputs of the format_create_table specification: CREATE TABLE       *)
(* statements written from up to MaxParts column definitions, with commas  *)
(* inside parentheses one and two levels deep.                             *)
(***************************************************************************)
ColumnDefinitions ==
    {<<"a", " ", "I", "N", "T">>,
     <<"b", " ", "D", "E", "C", "I", "M", "A", "L", "(", "1", "0", ",", " ", "2", ")">>,
     <<"c", " ", "I", "N", "T", " ", "D", "E", "F", "A", "U", "L", "T", " ",
       "f", "(", "1", ",", " ", "g", "(", "2", ")", ")">>,
     <<"d", " ", "I", "N", "T", " ", "C", "H", "E", "C", "K", " ",
       "(", "d", " ", "I", "N", " ", "(", "1", ",", " ", "2", ")", ")">>,
     <<"e", " ", " ", "T", "E", "X", "T">>}

L_CREATE_TABLE_t == <<"C", "R", "E", "A", "T", "E", " ", "T", "A", "B", "L", "E", " ", "t">>

\* the statement with the given column definitions for table t
create_statement(definitions) ==
    L_CREATE_TABLE_t \o <<" ", "(">> \o call("join", <<<<",", " ">>, definitions>>) \o <<")", ";">>

(***************************************************************************)
(* format_create_table as a process: the call and its return.              *)
(***************************************************************************)
InitCreate ==
    /\ stmt_parts \in {a \in SeqsUpTo(ColumnDefinitions, MaxParts) : a # <<>>}
    /\ stmt_where = <<>>
    /\ stmt_cols = <<>>
    /\ stmt_rows = <<>>
    /\ arg_sql = create_statement(stmt_parts)
    /\ pc = "format_create_table"
    /\ out = <<>>
    /\ csv_idle
    /\ format_all_idle
    /\ app_idle

ReturnCreate ==
    /\ pc = "format_create_table"
    /\ out' = call("format_create_table", <<arg_sql>>)
    /\ pc' = "returned"
    /\ UNCHANGED <<csv_vars, arg_sql, format_all_vars, stmt_vars, app_vars>>

NextCreate == ReturnCreate

SpecCreate == InitCreate /\ [][NextCreate]_vars

(***************************************************************************)
(* The inputs of the format_insert_select_block specification: INSERT ...  *)
(* SELECT statements written from a table name, up to MaxCols columns and  *)
(* up to MaxParts projections, with commas inside parentheses one and two  *)
(* levels deep and the letters of FROM inside names.                       *)
(***************************************************************************)
SelectTables == {<<"t">>, <<"f", "r", "o", "m", "_", "t">>}

SelectColumns == {<<"a">>, <<"b">>, <<"v", "_", "f", "r", "o", "m">>}

Projections ==
    {<<"x">>,
     <<"f", "(", "1", ",", " ", "2", ")">>,
     <<"f", "(", "1", ",", " ", "g", "(", "2", ")", ")">>,
     <<"d", "_", "f", "r", "o", "m">>}

L__SELECT_ == <<" ", "S", "E", "L", "E", "C", "T", " ">>

L_FROM_u_WHERE == <<"F", "R", "O", "M", " ", "u", " ", "W", "H", "E", "R", "E", " ", "z", " ", "=", " ", "1", ";">>

\* the statement that selects the projections into the columns of the table
insert_select_statement(table, columns, projections) ==
    L_INSERT_INTO_ \o table \o <<" ", "(">> \o call("join", <<<<",", " ">>, columns>>) \o <<")">>
    \o L__SELECT_ \o call("join", <<<<",", " ">>, projections>>) \o <<" ">> \o L_FROM_u_WHERE

(***************************************************************************)
(* format_insert_select_block as a process: the call and its return.       *)
(***************************************************************************)
InitInsertSelect ==
    /\ stmt_where \in SelectTables
    /\ stmt_cols \in {c \in SeqsUpTo(SelectColumns, MaxCols) : c # <<>>}
    /\ stmt_parts \in {p \in SeqsUpTo(Projections, MaxParts) : p # <<>>}
    /\ stmt_rows = <<>>
    /\ arg_sql = insert_select_statement(stmt_where, stmt_cols, stmt_parts)
    /\ pc = "format_insert_select_block"
    /\ out = <<>>
    /\ csv_idle
    /\ format_all_idle
    /\ app_idle

ReturnInsertSelect ==
    /\ pc = "format_insert_select_block"
    /\ out' = call("format_insert_select_block", <<arg_sql>>)
    /\ pc' = "returned"
    /\ UNCHANGED <<csv_vars, arg_sql, format_all_vars, stmt_vars, app_vars>>

NextInsertSelect == ReturnInsertSelect

SpecInsertSelect == InitInsertSelect /\ [][NextInsertSelect]_vars

(***************************************************************************)
(* The inputs of the format_delete_block specification: DELETE statements  *)
(* without WHERE, and with up to MaxParts conditions joined by AND, among  *)
(* them a BETWEEN and a string literal that holds the word AND.            *)
(***************************************************************************)
DeleteConditions ==
    {<<"a", "=", "1">>,
     <<"b", " ", "=", " ", "'", "x", " ", "A", "N", "D", " ", "y", "'">>,
     <<"c", " ", "B", "E", "T", "W", "E", "E", "N", " ", "1", " ", "A", "N", "D", " ", "2">>,
     <<"d", " ", "<", " ", "2">>,
     <<"e", " ", "I", "S", " ", "N", "U", "L", "L">>}

L_DELETE_FROM_t == <<"D", "E", "L", "E", "T", "E", " ", "F", "R", "O", "M", " ", "t">>

\* the statement that deletes from table t under the conditions
delete_statement(conditions) ==
    L_DELETE_FROM_t
    \o (IF conditions = <<>> THEN <<>>
        ELSE L__WHERE_ \o call("join", <<<<" ", "A", "N", "D", " ">>, conditions>>))
    \o <<";">>

(***************************************************************************)
(* format_delete_block as a process: the call and its return.              *)
(***************************************************************************)
InitDelete ==
    /\ stmt_parts \in SeqsUpTo(DeleteConditions, MaxParts)
    /\ stmt_where = <<>>
    /\ stmt_cols = <<>>
    /\ stmt_rows = <<>>
    /\ arg_sql = delete_statement(stmt_parts)
    /\ pc = "format_delete_block"
    /\ out = <<>>
    /\ csv_idle
    /\ format_all_idle
    /\ app_idle

ReturnDelete ==
    /\ pc = "format_delete_block"
    /\ out' = call("format_delete_block", <<arg_sql>>)
    /\ pc' = "returned"
    /\ UNCHANGED <<csv_vars, arg_sql, format_all_vars, stmt_vars, app_vars>>

NextDelete == ReturnDelete

SpecDelete == InitDelete /\ [][NextDelete]_vars

(***************************************************************************)
(* The while loop of _format_embedded_json (src/SQLFormatter.py:464-483)   *)
(* as a process.  An iteration is two steps: the search with what depends  *)
(* on the match alone, then the break or the update of the offset.  The    *)
(* indices are those of the sequences, one more than the offsets of the    *)
(* code: loc_offset is where the next search starts, loc_pretty_end where  *)
(* the text substituted last ends.                                         *)
(***************************************************************************)
ScanCandidates ==
    JsonCandidates
    \cup {<<"{", "\"", "k", "\"", ":", "\"", "=", "'", "{", "}", "\"", "}">>}

InitJsonScan ==
    /\ stmt_parts \in {values \in SeqsUpTo(ScanCandidates, MaxParts) : values # <<>>}
    /\ stmt_where = <<>>
    /\ stmt_cols = <<>>
    /\ stmt_rows = <<>>
    /\ arg_sql = json_statement(stmt_parts)
    /\ pc = "while"
    /\ out = <<>>
    /\ loc_stmt = arg_sql
    /\ loc_offset = 1
    /\ loc_match = <<>>
    /\ loc_pretty_end = 0
    /\ csv_idle
    /\ format_all_idle
    /\ gui_idle
    /\ boot_idle

\* match = pattern.search(stmt, offset), and the lines up to the try block
Search ==
    /\ pc = "while"
    /\ loc_match' = call("iteration", <<loc_stmt, loc_offset>>)
    /\ pc' = "match"
    /\ UNCHANGED <<out, csv_vars, arg_sql, format_all_vars, stmt_vars, loc_stmt, loc_offset,
                   loc_pretty_end, gui_vars, boot_vars>>

\* if not match: break, and the statement is returned
BreakNoMatch ==
    /\ pc = "match"
    /\ loc_match.start_json = 0
    /\ out' = loc_stmt
    /\ pc' = "returned"
    /\ UNCHANGED <<csv_vars, arg_sql, format_all_vars, stmt_vars, json_vars, gui_vars, boot_vars>>

\* if end_json == -1: break, and the statement is returned
BreakUnbalanced ==
    /\ pc = "match"
    /\ loc_match.start_json # 0
    /\ loc_match.end_json = 0
    /\ out' = loc_stmt
    /\ pc' = "returned"
    /\ UNCHANGED <<csv_vars, arg_sql, format_all_vars, stmt_vars, json_vars, gui_vars, boot_vars>>

\* the object parses: it is replaced by its indented form and the search
\* goes on after the replacement
Substitute ==
    /\ pc = "match"
    /\ loc_match.end_json # 0
    /\ loc_match.ok
    /\ loc_stmt' = SubSeq(loc_stmt, 1, loc_match.start_json - 1) \o loc_match.pretty
                   \o From(loc_stmt, loc_match.end_json + 1)
    /\ loc_offset' = loc_match.start_json + Len(loc_match.pretty)
    /\ loc_pretty_end' = loc_match.start_json + Len(loc_match.pretty) - 1
    /\ pc' = "while"
    /\ UNCHANGED <<out, csv_vars, arg_sql, format_all_vars, stmt_vars, loc_match, gui_vars, boot_vars>>

\* except json.JSONDecodeError: the search goes on after the closing brace
SkipCandidate ==
    /\ pc = "match"
    /\ loc_match.end_json # 0
    /\ ~loc_match.ok
    /\ loc_offset' = loc_match.end_json + 1
    /\ pc' = "while"
    /\ UNCHANGED <<out, csv_vars, arg_sql, format_all_vars, stmt_vars, loc_stmt, loc_match,
                   loc_pretty_end, gui_vars, boot_vars>>

Update == BreakNoMatch \/ BreakUnbalanced \/ Substitute \/ SkipCandidate

NextJsonScan == Search \/ Update

\* the loop is sequential code: a step that can run does run.  A Search step
\* is the step that takes pc from "while" to "match"
SpecJsonScan ==
    /\ InitJsonScan
    /\ [][NextJsonScan]_vars
    /\ WF_pc(pc = "while" /\ pc' = "match")
    /\ WF_vars(Update)

(***************************************************************************)
(* The inputs of the _format_with_optional_chunks specification: texts of  *)
(* up to MaxParts lines, some of them blank, and up to MaxParts flags (no  *)
(* flags: None), as many as there are lines or not.                        *)
(***************************************************************************)
ChunkLines ==
    {<<"S", "E", "L", "E", "C", "T", " ", "1">>,
     <<"F", "R", "O", "M", " ", "t", ";">>,
     <<>>,
     <<" ", " ", "x">>}

(***************************************************************************)
(* _format_with_optional_chunks as a process: the call and its return.     *)
(***************************************************************************)
InitChunks ==
    /\ stmt_parts \in SeqsUpTo(ChunkLines, MaxParts)
    /\ stmt_rows \in SeqsUpTo(BOOLEAN, MaxParts)
    /\ stmt_where = <<>>
    /\ stmt_cols = <<>>
    /\ arg_sql = join(<<"\n">>, stmt_parts)
    /\ json_checkbox \in BOOLEAN
    /\ pc = "_format_with_optional_chunks"
    /\ out = <<>>
    /\ filter_input = <<>> /\ input_text = <<>> /\ output_text = <<>>
    /\ error_label_text = <<>> /\ error_label_visible = FALSE
    /\ last_call = "None" /\ format_all_calls = <<>>
    /\ csv_idle
    /\ format_all_idle
    /\ json_idle
    /\ boot_idle

ReturnChunks ==
    /\ pc = "_format_with_optional_chunks"
    /\ LET result == call("_format_with_optional_chunks", <<arg_sql, stmt_rows, json_checkbox>>)
       IN  /\ out' = result.out
           /\ format_all_calls' = result.calls
    /\ pc' = "returned"
    /\ UNCHANGED <<csv_vars, arg_sql, format_all_vars, stmt_vars, json_vars, boot_vars,
                   filter_input, input_text, json_checkbox, output_text, error_label_text,
                   error_label_visible, last_call>>

NextChunks == ReturnChunks

SpecChunks == InitChunks /\ [][NextChunks]_vars

(***************************************************************************)
(* The window of the application (src/gui_app.py:210-298, 419-446): what   *)
(* the user can put into the filter line and the input editor, and the     *)
(* calls of format_sql_from_input, by the button, the key or the drop.     *)
(***************************************************************************)
L_prompt_filter ==
    <<"^", ">", " ">>

L_hash_filter ==
    <<"#">>

L_prompted_statements ==
    <<">", " ", "S", "E", "L", "E", "C", "T", " ", "1", "\n", ">", " ",
     "S", "E", "L", "E", "C", "T", " ", "2">>

L_SELECT_1 ==
    <<"S", "E", "L", "E", "C", "T", " ", "1", ";">>

L_UPDATE_without_value ==
    <<"U", "P", "D", "A", "T", "E", " ", "t", " ", "S", "E", "T", " ", "a",
     "=", "1", ",", ";">>

FilterPatterns == {<<>>, L_prompt_filter, L_hash_filter, L_unclosed_group, L_too_many_repeats}

InputTexts == {<<>>, L_prompted_statements, L_SELECT_1, L_UPDATE_without_value}

\* after __init__: the filter, the input and the checkbox as they were saved,
\* the output empty and the error label hidden
InitGui ==
    /\ filter_input \in FilterPatterns
    /\ input_text \in InputTexts
    /\ json_checkbox \in BOOLEAN
    /\ output_text = <<>>
    /\ error_label_text = <<>>
    /\ error_label_visible = FALSE
    /\ last_call = "None"
    /\ format_all_calls = <<>>
    /\ pc = "exec_"
    /\ out = <<>>
    /\ arg_sql = <<>>
    /\ csv_idle
    /\ format_all_idle
    /\ stmt_idle
    /\ json_idle
    /\ boot_idle

\* the user edits the filter line
SetFilter ==
    /\ \E pattern \in FilterPatterns : filter_input' = pattern
    /\ UNCHANGED <<pc, out, csv_vars, arg_sql, format_all_vars, stmt_vars, json_vars, boot_vars,
                   input_text, json_checkbox, output_text, error_label_text,
                   error_label_visible, last_call, format_all_calls>>

\* the user edits the input editor
SetInput ==
    /\ \E sql \in InputTexts : input_text' = sql
    /\ UNCHANGED <<pc, out, csv_vars, arg_sql, format_all_vars, stmt_vars, json_vars, boot_vars,
                   filter_input, json_checkbox, output_text, error_label_text,
                   error_label_visible, last_call, format_all_calls>>

\* the user toggles the pretty-JSON checkbox
ToggleJson ==
    /\ json_checkbox' = ~json_checkbox
    /\ UNCHANGED <<pc, out, csv_vars, arg_sql, format_all_vars, stmt_vars, json_vars, boot_vars,
                   filter_input, input_text, output_text, error_label_text,
                   error_label_visible, last_call, format_all_calls>>

\* format_sql_from_input, _apply_filter raises ValueError: the error label
\* shows it and the call returns
FilterRejected ==
    /\ LET filtered == call("_apply_filter", <<filter_input, input_text>>)
       IN  /\ filtered.raises = "ValueError"
           /\ error_label_text' = filtered.message
    /\ error_label_visible' = TRUE
    /\ last_call' = "ValueError from _apply_filter"
    /\ format_all_calls' = <<>>
    /\ UNCHANGED <<pc, out, csv_vars, arg_sql, format_all_vars, stmt_vars, json_vars, boot_vars,
                   filter_input, input_text, json_checkbox, output_text>>

\* format_sql_from_input, _apply_filter raises what is no ValueError: no
\* handler is in the way and the exception leaves the call
FilterRaises ==
    /\ LET filtered == call("_apply_filter", <<filter_input, input_text>>)
       IN  /\ filtered.raises \notin {"None", "ValueError"}
           /\ last_call' = filtered.raises \o " from _apply_filter"
    /\ format_all_calls' = <<>>
    /\ UNCHANGED <<pc, out, csv_vars, arg_sql, format_all_vars, stmt_vars, json_vars, boot_vars,
                   filter_input, input_text, json_checkbox, output_text, error_label_text,
                   error_label_visible>>

\* format_sql_from_input, the filter applied: the output editor gets the
\* formatted text, or the critical-error text if the formatting raised, and
\* the error label is emptied and hidden
Formatted ==
    /\ LET filtered == call("_apply_filter", <<filter_input, input_text>>)
           result == call("_format_with_optional_chunks",
                          <<filtered.sql, filtered.flags, json_checkbox>>)
       IN  /\ filtered.raises = "None"
           /\ output_text' = IF IsException(result.out) THEN call("critical_error", <<result.out>>)
                             ELSE result.out
           /\ format_all_calls' = result.calls
    /\ error_label_text' = <<>>
    /\ error_label_visible' = FALSE
    /\ last_call' = "formatted"
    /\ UNCHANGED <<pc, out, csv_vars, arg_sql, format_all_vars, stmt_vars, json_vars, boot_vars,
                   filter_input, input_text, json_checkbox>>

format_sql_from_input == FilterRejected \/ FilterRaises \/ Formatted

NextGui == SetFilter \/ SetInput \/ ToggleJson \/ FilterRejected \/ FilterRaises \/ Formatted

SpecGui == InitGui /\ [][NextGui]_vars

(***************************************************************************)
(* import_dependencies, safe_import and install_requirements               *)
(* (src/app.py:22-52) as a process.  The environment is what importing     *)
(* each module does (sys_modules) and what the pip subprocess does         *)
(* (pip_install); both are chosen at the start.                            *)
(***************************************************************************)
Dependencies == <<"PyQt5", "PyQt5.Qsci">>

\* present: the import returns the module; missing: it raises ImportError;
\* broken: it raises another exception
ModuleStates == {"present", "missing", "broken"}

PipOutcomes == {"installs all", "installs PyQt5", "installs nothing", "CalledProcessError"}

\* the modules a run of pip that ends well has installed
installed_by(outcome) ==
    IF outcome = "installs all" THEN {"PyQt5", "PyQt5.Qsci"}
    ELSE IF outcome = "installs PyQt5" THEN {"PyQt5"}
    ELSE {}

\* the next module import_dependencies hands to safe_import, or "None"
next_dependency(returned) ==
    LET i == First({k \in 1..Len(Dependencies) : Dependencies[k] \notin returned})
    IN  IF i = 0 THEN "None" ELSE Dependencies[i]

InitBoot ==
    /\ sys_modules \in [Range(Dependencies) -> ModuleStates]
    /\ pip_install \in PipOutcomes
    /\ loc_module_name = "None"
    /\ import_attempts = 0
    /\ install_calls = 0
    /\ exit_code = -1
    /\ returned_modules = {}
    /\ pc = "import_dependencies"
    /\ out = <<>>
    /\ arg_sql = <<>>
    /\ csv_idle
    /\ format_all_idle
    /\ stmt_idle
    /\ json_idle
    /\ gui_idle

\* import_dependencies calls safe_import
CallSafeImport ==
    /\ pc = "import_dependencies"
    /\ next_dependency(returned_modules) # "None"
    /\ loc_module_name' = next_dependency(returned_modules)
    /\ import_attempts' = 0
    /\ install_calls' = 0
    /\ pc' = "safe_import"
    /\ UNCHANGED <<out, csv_vars, arg_sql, format_all_vars, stmt_vars, json_vars, gui_vars,
                   sys_modules, pip_install, exit_code, returned_modules>>

\* return importlib.import_module(module_name), the first one or the retry
ImportReturns ==
    /\ pc \in {"safe_import", "retry"}
    /\ sys_modules[loc_module_name] = "present"
    /\ import_attempts' = import_attempts + 1
    /\ returned_modules' = returned_modules \cup {loc_module_name}
    /\ pc' = "import_dependencies"
    /\ UNCHANGED <<out, csv_vars, arg_sql, format_all_vars, stmt_vars, json_vars, gui_vars,
                   sys_modules, pip_install, loc_module_name, install_calls, exit_code>>

\* except ImportError, first import: on to install_requirements()
FirstImportFails ==
    /\ pc = "safe_import"
    /\ sys_modules[loc_module_name] = "missing"
    /\ import_attempts' = import_attempts + 1
    /\ pc' = "install_requirements"
    /\ UNCHANGED <<out, csv_vars, arg_sql, format_all_vars, stmt_vars, json_vars, gui_vars,
                   sys_modules, pip_install, loc_module_name, install_calls, exit_code,
                   returned_modules>>

\* the import raises what is no ImportError: no handler, the exception
\* leaves safe_import
ImportRaises ==
    /\ pc \in {"safe_import", "retry"}
    /\ sys_modules[loc_module_name] = "broken"
    /\ import_attempts' = import_attempts + 1
    /\ pc' = "raised"
    /\ UNCHANGED <<out, csv_vars, arg_sql, format_all_vars, stmt_vars, json_vars, gui_vars,
                   sys_modules, pip_install, loc_module_name, install_calls, exit_code,
                   returned_modules>>

\* install_requirements, check_call returns: the missing modules pip
\* installed are present
InstallReturns ==
    /\ pc = "install_requirements"
    /\ pip_install # "CalledProcessError"
    /\ install_calls' = install_calls + 1
    /\ sys_modules' = [m \in DOMAIN sys_modules |->
                          IF sys_modules[m] = "missing" /\ m \in installed_by(pip_install)
                          THEN "present" ELSE sys_modules[m]]
    /\ pc' = "retry"
    /\ UNCHANGED <<out, csv_vars, arg_sql, format_all_vars, stmt_vars, json_vars, gui_vars,
                   pip_install, loc_module_name, import_attempts, exit_code, returned_modules>>

\* install_requirements, except subprocess.CalledProcessError: sys.exit(1)
InstallFails ==
    /\ pc = "install_requirements"
    /\ pip_install = "CalledProcessError"
    /\ install_calls' = install_calls + 1
    /\ exit_code' = 1
    /\ pc' = "exited"
    /\ UNCHANGED <<out, csv_vars, arg_sql, format_all_vars, stmt_vars, json_vars, gui_vars,
                   sys_modules, pip_install, loc_module_name, import_attempts, returned_modules>>

\* a failed retry that goes back to install_requirements
RetryFailsInstallsAgain ==
    /\ pc = "retry"
    /\ sys_modules[loc_module_name] = "missing"
    /\ import_attempts' = import_attempts + 1
    /\ pc' = "install_requirements"
    /\ UNCHANGED <<out, csv_vars, arg_sql, format_all_vars, stmt_vars, json_vars, gui_vars,
                   sys_modules, pip_install, loc_module_name, install_calls, exit_code,
                   returned_modules>>

\* except ImportError, the retry: sys.exit(1)
RetryFails ==
    /\ pc = "retry"
    /\ sys_modules[loc_module_name] = "missing"
    /\ import_attempts' = import_attempts + 1
    /\ exit_code' = 1
    /\ pc' = "exited"
    /\ UNCHANGED <<out, csv_vars, arg_sql, format_all_vars, stmt_vars, json_vars, gui_vars,
                   sys_modules, pip_install, loc_module_name, install_calls, returned_modules>>

\* both modules imported: import_dependencies returns
ReturnDependencies ==
    /\ pc = "import_dependencies"
    /\ next_dependency(returned_modules) = "None"
    /\ pc' = "returned"
    /\ UNCHANGED <<out, csv_vars, arg_sql, format_all_vars, stmt_vars, json_vars, gui_vars,
                   boot_vars>>

NextBoot ==
    \/ CallSafeImport
    \/ ImportReturns
    \/ FirstImportFails
    \/ ImportRaises
    \/ InstallReturns
    \/ InstallFails
    \/ RetryFails
    \/ ReturnDependencies

SpecBoot == InitBoot /\ [][NextBoot]_vars


(***************************************************************************)
(* Properties of smart_split_csv.                                          *)
(***************************************************************************)
\* the loop is about to handle the character s[pos]
AtChar == pc = "scan" /\ pos <= Len(s)

\* the pieces of str between the indices of cuts, in order
RECURSIVE Segments(_, _, _)
Segments(str, cuts, from) ==
    IF cuts = {} THEN <<SubSeq(str, from, Len(str))>>
    ELSE LET c == Min(cuts)
         IN  <<SubSeq(str, from, c - 1)>> \o Segments(str, cuts \ {c}, c + 1)

RECURSIVE StripAll(_)
StripAll(list) ==
    IF list = <<>> THEN <<>> ELSE <<strip(list[1])>> \o StripAll(Tail(list))

\* the returned tokens are the trimmed, non-empty pieces between the splits
TokensOfSplits ==
    pc = "done" =>
        /\ out = NonEmpty(StripAll(Segments(s, split_at, 1)))
        /\ \A i \in 1..Len(out) : out[i] # <<>> /\ out[i] = strip(out[i])

\* the quote state toggles only on an unescaped ', the depth changes only on
\* a parenthesis outside quotes, and an escaped character changes neither
QuoteAndDepthSteps ==
    AtChar =>
        /\ (scan'.in_single_quotes # scan.in_single_quotes)
               <=> (s[pos] = "'" /\ ~scan.escape_next_char)
        /\ (scan'.parentheses_level # scan.parentheses_level)
               => (~scan.in_single_quotes /\ ~scan.escape_next_char
                   /\ s[pos] \in {"(", ")"})
        /\ (scan.in_single_quotes /\ scan.escape_next_char)
               => scan'.in_single_quotes

RECURSIVE LexState(_, _)
LexState(str, i) ==
    IF i <= 1 THEN <<"none", 0>>
    ELSE LET before == LexState(str, i - 1)
             q == before[1]
             d == before[2]
             c == str[i - 1]
         IN  IF q = "single" THEN <<IF c = "'" THEN "none" ELSE "single", d>>
             ELSE IF q = "double" THEN <<IF c = "\"" THEN "none" ELSE "double", d>>
             ELSE IF c = "'" THEN <<"single", d>>
             ELSE IF c = "\"" THEN <<"double", d>>
             ELSE IF c = "{" THEN <<"none", d + 1>>
             ELSE IF c = "}" /\ d > 0 THEN <<"none", d - 1>>
             ELSE <<"none", d>>

\* the comma at index i lies in a double-quoted string that is closed later
InDoubleQuotedString(str, i) ==
    /\ LexState(str, i)[1] = "double"
    /\ \E j \in (i + 1)..Len(str) : str[j] = "\""

\* the comma at index i lies between a { and its closing }
InBracedLiteral(str, i) ==
    /\ LexState(str, i) = <<"none", 1>>
    /\ \E j \in (i + 1)..Len(str) : LexState(str, j + 1) = <<"none", 0>>

\* C7: smart_split_csv never splits at a comma inside a double-quoted
\* string or inside a braced JSON literal.
C7_NoSplitInDoubleQuotesOrBraces ==
    \A i \in split_at : ~InDoubleQuotedString(s, i) /\ ~InBracedLiteral(s, i)

\* a token scanned alone: the loop never splits
NoTopLevelComma(token) == scan_from(scan_init, token, 1).parts = <<>>

\* a token scanned alone leaves the loop as it found it: outside quotes, at
\* depth zero, with no escape pending
Balanced(token) ==
    LET st == scan_from(scan_init, token, 1)
    IN  ~st.in_single_quotes /\ ~st.escape_next_char /\ st.parentheses_level = 0

FragmentsOf(pieces) == NonEmpty(StripAll(pieces))

\* the fragments the loop of format_all visits for the argument
LoopFragments == FragmentsOf(split_statements(strip(arg_sql)))

\* what the formatter chosen for the fragment returns for it, before the
\* passes that follow (lines 84-86)
Handled(fragment) == call_handler(dispatch(fragment), Append(fragment, ";"))

\* the fragment's formatter yields a diagnostic string
YieldsDiagnostic(fragment) ==
    /\ dispatch(fragment) # "None"
    /\ ~IsException(Handled(fragment))
    /\ startswith(Handled(fragment), <<CrossMark>>)

\* blocks[1], a blank line, blocks[2], a blank line, ...
RECURSIVE WithBlankLines(_)
WithBlankLines(blocks) ==
    IF blocks = <<>> THEN <<>>
    ELSE IF Len(blocks) = 1 THEN blocks[1]
    ELSE blocks[1] \o <<"\n", "\n">> \o WithBlankLines(Tail(blocks))

\* C1: format_all returns a string and never raises; a diagnostic a
\* fragment's formatter yields is that fragment's block, and every fragment
\* of the input has its block in the joined output.
C1_NeverRaisesAndEmitsDiagnostics ==
    /\ pc # "raised"
    /\ pc = "returned" /\ strip(arg_sql) # <<>> =>
          /\ Len(loc_formatted_blocks) = Len(LoopFragments)
          /\ \A i \in 1..Len(LoopFragments) :
                YieldsDiagnostic(LoopFragments[i])
                    => loc_formatted_blocks[i] = Handled(LoopFragments[i])
          /\ out = WithBlankLines(loc_formatted_blocks)

\* the fragment without its leading comments and the whitespace around them
WithoutLeadingComments(fragment) == lstrip(cleaned(fragment))

\* the method of the first entry of _DISPATCH_MAP whose pattern matches the
\* fragment, its leading comments ignored and its keywords in any case
FirstMatch(fragment) ==
    LET body == WithoutLeadingComments(fragment)
        k == First({j \in 1..Len(_DISPATCH_MAP) :
                      pattern_search(j, IF j = 1 THEN body ELSE upper(body))})
    IN  IF k = 0 THEN "None" ELSE _DISPATCH_MAP[k]

\* C2: every non-empty fragment is handled by the formatter of the first
\* entry of the pattern list that matches it, leading comments ignored and
\* keywords in any case; INSERT ... (columns) SELECT goes to the
\* INSERT...SELECT formatter although the plain INSERT pattern matches it
\* too; a fragment that matches no pattern is passed through.
C2_FirstMatchingFormatter ==
    /\ pc = "format" =>
          /\ loc_handler_name = FirstMatch(loc_part_content)
          /\ (INSERT_SELECT_PATTERN(WithoutLeadingComments(loc_part_content))
              /\ INSERT_INTO_PATTERN(upper(WithoutLeadingComments(loc_part_content))))
                 => loc_handler_name = "format_insert_select_block"
    /\ pc = "returned" /\ strip(arg_sql) # <<>> =>
          \A i \in 1..Len(LoopFragments) :
              FirstMatch(LoopFragments[i]) = "None"
                  => loc_formatted_blocks[i]
                         = format_part(LoopFragments[i], "None", arg_pretty_json)

\* the pieces of str between its separators, taken from the left; after[i]
\* is the index that follows the separator starting at index i, or 0
RECURSIVE PiecesFrom(_, _, _)
PiecesFrom(str, after, from) ==
    LET i == First({k \in from..Len(str) : after[k] # 0})
    IN  IF i = 0 THEN <<SubSeq(str, from, Len(str))>>
        ELSE <<SubSeq(str, from, i - 1)>> \o PiecesFrom(str, after, after[i])

\* str cut at each semicolon that a newline follows at once
CutAtSemicolonNewline(str) ==
    PiecesFrom(str, [i \in 1..Len(str) |->
                        IF LitAt(str, i, <<";", "\n">>) THEN i + 2 ELSE 0], 1)

\* str cut at each semicolon that whitespace with a newline follows, up to
\* the last newline of that whitespace
CutAtSemicolonSpaceNewline(str) ==
    PiecesFrom(str, [i \in 1..Len(str) |-> separator_at(str, i)], 1)

\* the block of each fragment, in order
BlocksOf(fragments) ==
    [i \in 1..Len(fragments) |->
        format_part(fragments[i], dispatch(fragments[i]), arg_pretty_json)]

\* format_all has returned the blocks of the non-empty fragments among the
\* pieces, in order, a blank line between consecutive blocks and no other
\* line break around a block
ReturnedBlocksOf(pieces) ==
    LET blocks == BlocksOf(FragmentsOf(pieces))
    IN  /\ blocks # <<>>
        /\ out = WithBlankLines(blocks)
        /\ \A i \in 1..Len(blocks) :
              /\ blocks[i] # <<>>
              /\ blocks[i][1] # "\n"
              /\ blocks[i][Len(blocks[i])] # "\n"

\* C3 as stated: format_all returns the empty string for empty or
\* whitespace-only input; otherwise the blocks of the non-empty fragments of
\* the input split on a semicolon followed by a newline, one per fragment,
\* in order, exactly one blank line between consecutive blocks.
C3_BlocksOfSemicolonNewlineFragments ==
    pc = "returned" =>
        IF strip(arg_sql) = <<>> THEN out = <<>>
        ELSE ReturnedBlocksOf(CutAtSemicolonNewline(strip(arg_sql)))

\* C3 amended: the same, the input being split at each semicolon followed
\* by optional whitespace and a newline, the separator reaching to the last
\* newline of that whitespace.
C3_BlocksOfSeparatedFragments ==
    pc = "returned" =>
        IF strip(arg_sql) = <<>> THEN out = <<>>
        ELSE ReturnedBlocksOf(CutAtSemicolonSpaceNewline(strip(arg_sql)))

\* format_all returned two blocks for two statements, one of them cut off
\* at a semicolon with a space before the newline
C3_Witness ==
    /\ pc = "returned"
    /\ Len(loc_formatted_blocks) = 2
    /\ \E i \in 1..Len(arg_sql) : LitAt(arg_sql, i, <<";", " ", "\n">>)
    /\ out = WithBlankLines(loc_formatted_blocks)

(***************************************************************************)
(* Properties of format_insert_values_block.                               *)
(***************************************************************************)
\* lit occurs in str
Contains(str, lit) == \E i \in 1..Len(str) : LitAt(str, i, lit)

\* the statement's rows each have as many values as there are columns
EveryRowFits == \A r \in 1..Len(stmt_rows) : Len(stmt_rows[r]) = Len(stmt_cols)

\* the lines of the result that open a row block
RowOpeners(lines) ==
    {k \in 1..Len(lines) : strip(lines[k]) \in {<<"(">>, <<",", "(">>}}

\* the index of the line that opens the r-th row block
RowOpener(lines, r) ==
    CHOOSE k \in RowOpeners(lines) :
        Cardinality({j \in RowOpeners(lines) : j <= k}) = r

\* C4: when every row has as many top-level values as there are columns,
\* the result has one row block per row, in the order of the rows, the first
\* opened by ( and the later ones by ,( and the i-th value line of each row
\* holds the row's i-th value and ends with the comment -- <i-th column>.
C4_RowBlocksInOrderWithColumnComments ==
    (pc = "returned" /\ EveryRowFits) =>
        LET lines == split_char(out, "\n")
        IN  /\ Cardinality(RowOpeners(lines)) = Len(stmt_rows)
            /\ \A r \in 1..Len(stmt_rows) :
                  LET k == RowOpener(lines, r)
                  IN  /\ strip(lines[k]) = IF r = 1 THEN <<"(">> ELSE <<",", "(">>
                      /\ k + Len(stmt_cols) <= Len(lines)
                      /\ \A i \in 1..Len(stmt_cols) :
                            /\ startswith(strip(lines[k + i]), stmt_rows[r][i])
                            /\ endswith(lines[k + i], <<"-", "-", " ">> \o stmt_cols[i])

\* C5: when some row's count of values differs from the count of columns,
\* the whole result is a diagnostic that names the table, the 1-based index
\* of the first such row and the expected and found counts; it holds no
\* reformatted VALUES block and no row block.
C5_MismatchDiagnosticForFirstBadRow ==
    (pc = "returned" /\ ~EveryRowFits) =>
        LET r == Min({k \in 1..Len(stmt_rows) : Len(stmt_rows[k]) # Len(stmt_cols)})
            expected == str_of_int(Len(stmt_cols))
            found == str_of_int(Len(stmt_rows[r]))
        IN  /\ startswith(out, L_err_mismatch_row \o str_of_int(r) \o L__for_table_
                                 \o <<"t", "'">>)
            /\ \/ Contains(out, L_expected \o expected \o L_values_for_columns)
               \/ Contains(out, L_values_empty_but \o expected \o L_columns_defined)
            /\ \/ Contains(out, L_but_found \o found \o L_values_)
               \/ Len(stmt_rows[r]) = 0 /\ Contains(out, L_values_empty_but)
            /\ ~Contains(out, L_close_VALUES)
            /\ RowOpeners(split_char(out, "\n")) = {}

(***************************************************************************)
(* Properties of format_all on one statement.                              *)
(***************************************************************************)
\* format_all has returned the block of the argument's only statement, which
\* is no diagnostic
ReturnedOneFormattedStatement ==
    /\ pc = "returned"
    /\ Len(LoopFragments) = 1
    /\ Len(loc_formatted_blocks) = 1
    /\ ~startswith(out, <<CrossMark>>)

\* the result, given to format_all again, is one fragment for the formatter
\* that wrote it
SameFormatterAgain ==
    /\ Len(FragmentsOf(split_statements(strip(out)))) = 1
    /\ dispatch(FragmentsOf(split_statements(strip(out)))[1]) = loc_handler_name

\* C9: format_all(format_all(x)) = format_all(x) for a well-formed single
\* statement x whose formatted form is dispatched to the same formatter.
C9_FormatAllIdempotent ==
    (ReturnedOneFormattedStatement /\ SameFormatterAgain)
        => format_all(out, arg_pretty_json) = out

\* the JSON literals str embeds: the text from a { to the } that balances
\* it, where json.loads accepts that text
EmbeddedJson(str) ==
    {SubSeq(str, i, find_balanced_json(str, i)) :
        i \in {k \in 1..Len(str) :
                 /\ str[k] = "{"
                 /\ find_balanced_json(str, k) # 0
                 /\ json_loads(SubSeq(str, k, find_balanced_json(str, k))).ok}}

\* C10: with pretty_json=False, every JSON literal an UPDATE statement
\* embeds is in the output of format_all character for character, and the
\* statement is reformatted by format_update_block.
C10_JsonUntouchedWithoutPrettyJson ==
    (/\ pc = "returned"
     /\ ~arg_pretty_json
     /\ Len(LoopFragments) = 1
     /\ loc_handler_name = "format_update_block"
     /\ EmbeddedJson(arg_sql) # {})
        => /\ \A literal \in EmbeddedJson(arg_sql) : Contains(out, literal)
           /\ out = format_part(LoopFragments[1], "format_update_block", FALSE)

(***************************************************************************)
(* Properties of the JSON pass of format_all.                              *)
(***************************************************************************)
\* the indices of str at which a JSON object value follows an =, written as
\* a single-quoted string or bare, well-formed up to its balancing brace
JsonValuesAfterEquals(str) ==
    {k \in 1..Len(str) :
        /\ str[k] = "{"
        /\ \E e \in 1..(k - 1) :
              /\ str[e] = "="
              /\ \/ SkipWs(str, e + 1) = k
                 \/ SkipWs(str, e + 1) = k - 1 /\ str[k - 1] = "'"
        /\ find_balanced_json(str, k) # 0
        /\ json_loads(SubSeq(str, k, find_balanced_json(str, k))).ok}

\* json.dumps(json.loads(...), indent=4) of the value of str at index k
PrettyValue(str, k) ==
    json_dumps(json_loads(SubSeq(str, k, find_balanced_json(str, k))).v, 0)

\* format_all has returned the block of one UPDATE statement
ReturnedOneUpdate ==
    /\ pc = "returned"
    /\ Len(LoopFragments) = 1
    /\ UPDATE_PATTERN(upper(LoopFragments[1]))

\* C11: with pretty_json=True every well-formed JSON object value after an =
\* in an UPDATE statement, single-quoted or bare, is in the output as its
\* 4-space-indented serialization, and the WHERE clause of the statement is
\* in the output as it was.
C11_EveryJsonValuePrettyPrinted ==
    (ReturnedOneUpdate /\ arg_pretty_json) =>
        /\ \A k \in JsonValuesAfterEquals(arg_sql) :
              Contains(out, PrettyValue(arg_sql, k))
        /\ \A w \in 1..Len(arg_sql) :
              (LitAt(arg_sql, w, L_WHERE_) /\ JsonValuesAfterEquals(arg_sql) # {}
               /\ \A k \in JsonValuesAfterEquals(arg_sql) : k < w)
                  => endswith(out, From(arg_sql, w))

(***************************************************************************)
(* Properties of _format_embedded_json.                                    *)
(***************************************************************************)
\* the value as the pass should leave it: pretty-printed when json.loads
\* accepts it, as it was otherwise
PrettyOrUntouched(value) ==
    IF json_loads(value).ok THEN json_dumps(json_loads(value).v, 0) ELSE value

\* C12: a candidate that is malformed or has no balancing brace is left as
\* it was and nothing is raised, and every well-formed value of the
\* statement, before or after it, is pretty-printed.
C12_MalformedSkippedOthersPrettyPrinted ==
    pc = "returned" =>
        out = json_statement([i \in 1..Len(stmt_parts) |-> PrettyOrUntouched(stmt_parts[i])])

(***************************************************************************)
(* Properties of format_update_block.                                      *)
(***************************************************************************)
\* the lines claimed for the statement: the head, one line per assignment
\* with a comma after all but the last, and the WHERE line or the semicolon
UpdateLayout(assignments, condition) ==
    LET n == Len(assignments)
        line(i) == INDENT_1 \o assignments[i]
                   \o (IF i < n THEN <<",">>
                       ELSE IF condition = <<>> THEN <<";">> ELSE <<>>)
    IN  <<L_UPDATE_ \o <<"t">>, INDENT_2 \o L_SET>>
        \o [i \in 1..n |-> line(i)]
        \o (IF condition = <<>> THEN <<>> ELSE <<L_WHERE_ \o condition \o <<";">>>>)

\* C13: format_update_block emits UPDATE <table>, then SET indented by two
\* spaces, then one line per top-level assignment in source order, each but
\* the last ended by a comma, then WHERE <condition>; or else a closing
\* semicolon; a comma inside a quoted string, a JSON literal or a
\* parenthesized expression starts no new line.
C13_OneLinePerAssignment ==
    pc = "returned" => split_char(out, "\n") = UpdateLayout(stmt_parts, stmt_where)

(***************************************************************************)
(* Properties of format_all on an UPDATE with a CASE value.                *)
(***************************************************************************)
\* the count of spaces that open the line
Indentation(line) == SkipWs(line, 1) - 1

\* the line ends the CASE block: END, with the comma or semicolon after it
IsEndLine(line) == strip(line) \in {L_END, L_END \o <<",">>, L_END \o <<";">>}

\* from the line k, which an assignment opens with CASE, down to the first
\* END line every line is indented deeper than line k
CaseLinesDeeper(lines, k) ==
    \E e \in (k + 1)..Len(lines) :
        /\ IsEndLine(lines[e])
        /\ \A j \in (k + 1)..e : Indentation(lines[j]) > Indentation(lines[k])
        /\ \A j \in (k + 1)..(e - 1) : ~IsEndLine(lines[j])
        /\ (e < Len(lines) /\ ~startswith(lines[e + 1], L_WHERE_))
               => strip(lines[e]) = L_END \o <<",">>

\* C14: for an UPDATE whose assignment value is a CASE expression the output
\* of format_all has the WHEN, ELSE and END lines indented deeper than the
\* assignment line that opens them, the assignment's comma on the END line,
\* and is what format_update_block laid out: the CASE pass of format_all
\* over the formatted UPDATE changes nothing.
C14_CaseLinesStayIndented ==
    (ReturnedOneUpdate /\ Contains(arg_sql, <<"=", " ">> \o L_CASE \o <<" ">>)) =>
        LET lines == split_char(out, "\n")
        IN  /\ \E k \in 1..Len(lines) : endswith(lines[k], <<"=", " ">> \o L_CASE)
            /\ \A k \in 1..Len(lines) :
                  endswith(lines[k], <<"=", " ">> \o L_CASE) => CaseLinesDeeper(lines, k)
            /\ out = format_update_block(LoopFragments[1] \o <<";">>)

(***************************************************************************)
(* Properties of format_case_expression.                                   *)
(***************************************************************************)
\* the word CASE, in either case, stands in str as a word of its own
HasCaseKeyword(str) ==
    \E i \in 1..Len(str) :
        LitAtI(str, i, L_CASE) /\ WordBoundary(str, i) /\ WordBoundary(str, i + Len(L_CASE))

\* C15: format_case_expression returns an input without the CASE keyword
\* unchanged, and applied to its own output it returns that output.
C15_NoOpWithoutCaseAndIdempotent ==
    pc = "returned" =>
        /\ ~HasCaseKeyword(arg_sql) => out = arg_sql
        /\ format_case_expression(out) = out

(***************************************************************************)
(* Properties of format_all on a fragment with leading comments.           *)
(***************************************************************************)
\* the leading comments of the fragment
LeadingComments(fragment) ==
    strip(SubSeq(fragment, 1, Len(fragment) - Len(WithoutLeadingComments(fragment))))

\* the fragment is leading comments and a statement that a pattern of
\* _DISPATCH_MAP recognizes
CommentedStatement(fragment) ==
    /\ LeadingComments(fragment) # <<>>
    /\ FirstMatch(fragment) # "None"

\* C16: a fragment of leading comments and a recognized statement is
\* classified by the statement, its block ends with what the matching
\* formatter makes of the statement, and the block holds the comment text.
C16_CommentedStatementFormatted ==
    /\ (pc = "format" /\ CommentedStatement(loc_part_content))
           => loc_handler_name = FirstMatch(loc_part_content)
    /\ pc = "returned" /\ strip(arg_sql) # <<>> =>
          \A i \in 1..Len(LoopFragments) :
              CommentedStatement(LoopFragments[i]) =>
                  /\ endswith(loc_formatted_blocks[i],
                              format_part(WithoutLeadingComments(LoopFragments[i]),
                                          FirstMatch(LoopFragments[i]), arg_pretty_json))
                  /\ Contains(loc_formatted_blocks[i], LeadingComments(LoopFragments[i]))

(***************************************************************************)
(* Properties of format_all on a fragment that no pattern matches.         *)
(***************************************************************************)
\* no pattern of _DISPATCH_MAP matches the fragment and it has no CASE...END
PassedThrough(fragment) ==
    /\ dispatch(fragment) = "None"
    /\ \A k \in 1..Len(fragment) : case_block_at(fragment, k) = 0

\* str without the semicolons that end it
WithoutFinalSemicolons(str) ==
    SubSeq(str, 1, Max({k \in 0..Len(str) : k = 0 \/ str[k] # ";"}))

BlockOfSetStatements ==
    /\ Len(LoopFragments) >= 2
    /\ \A i \in 1..Len(LoopFragments) :
          set_match(LoopFragments[i]).ok
    /\ split_statements(strip(arg_sql)) = CutAtSemicolonNewline(strip(arg_sql))

\* C18: SET assignment statements one per line, each ended by a semicolon
\* and a newline, are formatted by format_all as one SET block: the output
\* is the one format_set_block gives for the whole text, its lines adjacent
\* and its left-hand sides padded to the width of the longest.
C18_SetStatementsAsOneBlock ==
    (pc = "returned" /\ BlockOfSetStatements) =>
        out = format_set_block(arg_sql)

(***************************************************************************)
(* Properties of format_set_block.                                         *)
(***************************************************************************)
\* the line is a SET assignment with one of the operators = and :=
IsSetAssignment(line) == line.lhs # <<>> /\ line.op \in {<<"=">>, <<":", "=">>}

\* the right-hand side opens a JSON literal
HasJsonValue(line) == startswith(line.rhs, <<"{">>) \/ startswith(line.rhs, <<"[">>)

\* 'SET <lhs> <op> <rhs>;' per line, every lhs padded to the longest
PaddedSetLines(lines) ==
    LET width == Max({Len(lines[i].lhs) : i \in 1..Len(lines)})
    IN  [i \in 1..Len(lines) |->
            L_SET_ \o lines[i].lhs \o Spaces(width - Len(lines[i].lhs)) \o <<" ">>
                \o lines[i].op \o <<" ">> \o lines[i].rhs \o <<";">>]

\* C19: format_set_block returns its input unchanged when a line is no SET
\* assignment with = or := or a right-hand side starts with { or [;
\* otherwise it emits, in order, one line 'SET <lhs> <op> <rhs>;' per input
\* line, every lhs padded to the longest of the block, the rhs unchanged and
\* the operator one of = and :=.
C19_UnchangedOrPaddedSetLines ==
    pc = "returned" =>
        IF \E i \in 1..Len(stmt_parts) :
               ~IsSetAssignment(stmt_parts[i]) \/ HasJsonValue(stmt_parts[i])
        THEN out = arg_sql
        ELSE split_char(out, "\n") = PaddedSetLines(stmt_parts)

(***************************************************************************)
(* Properties of format_alter_table.                                       *)
(***************************************************************************)
\* the header line, then one indented line per action, comma-terminated but
\* for the last, which ends with the semicolon
AlterLayout(actions) ==
    <<L_ALTER_TABLE_t>>
    \o [i \in 1..Len(actions) |->
           INDENT_1 \o actions[i] \o (IF i < Len(actions) THEN <<",">> ELSE <<";">>)]

\* C20: for ALTER TABLE with n >= 1 top-level actions format_alter_table
\* emits the header line 'ALTER TABLE <name>' and exactly n indented action
\* lines in source order, each ended by a comma but the last, which ends
\* with ';'.
C20_HeaderAndOneLinePerAction ==
    pc = "returned" => split_char(out, "\n") = AlterLayout(stmt_parts)

(***************************************************************************)
(* Properties of format_create_table.                                      *)
(***************************************************************************)
\* '<header> (', one indented line per definition with a comma after all
\* but the last, then ');'
CreateLayout(definitions) ==
    <<L_CREATE_TABLE_t \o <<" ", "(">>>>
    \o [i \in 1..Len(definitions) |->
           INDENT_1 \o definitions[i] \o (IF i < Len(definitions) THEN <<",">> ELSE <<>>)]
    \o <<<<")", ";">>>>

\* C21: format_create_table splits the body at top-level commas only: one
\* definition gives the statement on one line with its whitespace runs
\* collapsed, k > 1 definitions give '<header> (', exactly k indented
\* definition lines in source order with a comma after all but the last,
\* then ');'.
C21_SplitAtTopLevelCommasOnly ==
    pc = "returned" =>
        IF Len(stmt_parts) = 1
        THEN WithoutFinalSemicolons(out)
                 = L_CREATE_TABLE_t \o <<" ", "(">> \o collapse_runs(stmt_parts[1]) \o <<")">>
        ELSE split_char(out, "\n") = CreateLayout(stmt_parts)

(***************************************************************************)
(* Properties of format_all on a CREATE INDEX statement.                   *)
(***************************************************************************)
L_CREATE_INDEX_ == <<"C", "R", "E", "A", "T", "E", " ", "I", "N", "D", "E", "X", " ">>

L_CREATE_UNIQUE_INDEX_ ==
    <<"C", "R", "E", "A", "T", "E", " ", "U", "N", "I", "Q", "U", "E", " ", "I", "N", "D", "E", "X", " ">>

\* the fragment is CREATE [UNIQUE] INDEX <name> ON <table> (<col-list>),
\* the column list without parentheses of its own
IsCreateIndex(fragment) ==
    /\ startswith(fragment, L_CREATE_INDEX_) \/ startswith(fragment, L_CREATE_UNIQUE_INDEX_)
    /\ Cardinality({k \in 1..Len(fragment) : fragment[k] = "("}) = 1
    /\ Cardinality({k \in 1..Len(fragment) : fragment[k] = ")"}) = 1
    /\ fragment[Len(fragment)] = ")"

\* the header line ending in '(', one indented line per column with a comma
\* after all but the last, then ');'
IndexLayout(fragment) ==
    LET open == First({k \in 1..Len(fragment) : fragment[k] = "("})
        columns == split_char(SubSeq(fragment, open + 1, Len(fragment) - 1), ",")
    IN  <<strip(SubSeq(fragment, 1, open - 1)) \o <<" ", "(">>>>
        \o [i \in 1..Len(columns) |->
               INDENT_1 \o strip(columns[i]) \o (IF i < Len(columns) THEN <<",">> ELSE <<>>)]
        \o <<<<")", ";">>>>

\* C22: a CREATE [UNIQUE] INDEX statement is handled by format_create_index
\* and its block is always multi-line: the header line ending in '(', one
\* column per indented line with a comma after all but the last, and ');'.
C22_CreateIndexMultiLine ==
    /\ (pc = "format" /\ IsCreateIndex(WithoutFinalSemicolons(loc_part_content)))
           => loc_handler_name = "format_create_index"
    /\ pc = "returned" /\ strip(arg_sql) # <<>> =>
          \A i \in 1..Len(LoopFragments) :
              IsCreateIndex(WithoutFinalSemicolons(LoopFragments[i])) =>
                  split_char(loc_formatted_blocks[i], "\n")
                      = IndexLayout(WithoutFinalSemicolons(LoopFragments[i]))

(***************************************************************************)
(* Properties of format_insert_select_block.                               *)
(***************************************************************************)
\* the count-mismatch diagnostic for the two counts
CountMismatch(columns, projections) ==
    L_err_count_mismatch \o str_of_int(columns) \o L__vs_ \o str_of_int(projections)
        \o <<")", ".">>

\* C23: the projections are counted at the top-level commas of the SELECT
\* list only; format_insert_select_block returns the count-mismatch
\* diagnostic exactly when the number of columns differs from that count,
\* and otherwise the i-th projection line holds the i-th projection and is
\* annotated with the i-th column name.
C23_MismatchExactlyWhenCountsDiffer ==
    pc = "returned" =>
        IF Len(stmt_cols) # Len(stmt_parts)
        THEN out = CountMismatch(Len(stmt_cols), Len(stmt_parts))
        ELSE LET lines == split_char(out, "\n")
             IN  /\ Len(lines) = 2 * Len(stmt_cols) + 3
                 /\ \A i \in 1..Len(stmt_parts) :
                       LET line == lines[Len(stmt_cols) + 2 + i]
                       IN  /\ startswith(line, INDENT_1 \o stmt_parts[i])
                           /\ endswith(line, L__comment_ \o stmt_cols[i])

\* C24: after the projection lines the output holds the rest of the
\* statement from the FROM keyword that ends the projection list, verbatim,
\* also when the letters of FROM occur earlier in the statement; nothing
\* before that keyword is repeated.
C24_RemainderStartsAtFromKeyword ==
    (pc = "returned" /\ ~startswith(out, <<CrossMark>>)) =>
        endswith(out, L__comment_ \o stmt_cols[Len(stmt_cols)] \o <<"\n">> \o L_FROM_u_WHERE)

(***************************************************************************)
(* Properties of format_delete_block.                                      *)
(***************************************************************************)
\* 'DELETE FROM <table>', 'WHERE', then one line per condition, the later
\* ones prefixed with 'AND ', the last one closed by the semicolon
DeleteLayout(conditions) ==
    <<L_DELETE_FROM_t, L_WHERE>>
    \o [i \in 1..Len(conditions) |->
           (IF i > 1 THEN L_AND_ ELSE <<>>) \o conditions[i]
               \o (IF i = Len(conditions) THEN <<";">> ELSE <<>>)]

\* C25: without a WHERE clause format_delete_block returns the trimmed
\* statement unchanged; with k conditions joined by AND it emits 'DELETE FROM
\* <table>', the line 'WHERE' and exactly k condition lines in source order,
\* the first without prefix, each later one prefixed with 'AND ', and the
\* output ends with ';'.
C25_OneLinePerCondition ==
    pc = "returned" =>
        IF stmt_parts = <<>> THEN out = strip(arg_sql)
        ELSE LET lines == split_char(out, "\n")
             IN  /\ Len(lines) = Len(stmt_parts) + 2
                 /\ SubSeq(lines, 1, 2) = <<L_DELETE_FROM_t, L_WHERE>>
                 /\ strip_each(lines) = DeleteLayout(stmt_parts)

(***************************************************************************)
(* Properties of format_insert_values_block on empty rows.                 *)
(***************************************************************************)
\* the result is a diagnostic
IsDiagnostic(result) == startswith(result, <<CrossMark>>)

\* C26: an INSERT that declares zero columns and whose VALUES row is the
\* empty row '()' is accepted: the result is an INSERT with an empty row and
\* no diagnostic; an empty VALUES row against a non-empty column list gives
\* a mismatch diagnostic.
C26_EmptyRowAcceptedForZeroColumns ==
    pc = "returned" =>
        /\ (stmt_cols = <<>> /\ stmt_rows = << <<>> >>) =>
               /\ ~IsDiagnostic(out)
               /\ startswith(out, L_INSERT_INTO_ \o <<"t">>)
               /\ Contains(out, L_VALUES)
               /\ endswith(out, <<";">>)
        /\ (stmt_cols # <<>> /\ \E r \in 1..Len(stmt_rows) : stmt_rows[r] = <<>>) =>
               /\ IsDiagnostic(out)
               /\ Contains(out, <<"M", "i", "s", "m", "a", "t", "c", "h">>)

(***************************************************************************)
(* Properties of the scan loop of _format_embedded_json.                   *)
(***************************************************************************)
\* the search finds nothing before the offset
SearchFromOffset ==
    (pc = "while" /\ pc' = "match" /\ loc_match'.start_json # 0) => loc_match'.start >= loc_offset

\* an iteration that does not leave the loop moves the search offset past
\* the start of the match it handled and leaves less text to search
IterationAdvances ==
    (pc = "match" /\ pc' = "while")
        => /\ loc_offset' > loc_match.start
           /\ Len(loc_stmt') + 1 - loc_offset' < Len(loc_stmt) + 1 - loc_offset

\* a match found after a substitution starts after the substituted text
NoRescan ==
    (pc = "while" /\ pc' = "match" /\ loc_match'.start_json # 0) => loc_match'.start > loc_pretty_end

\* C30: every iteration of the scan loop either leaves the loop or moves the
\* search offset strictly beyond the start of the match it handled; the text
\* a substitution put in is never searched again; so the loop terminates
C30_ScanLoopTerminates ==
    /\ [][SearchFromOffset /\ IterationAdvances /\ NoRescan]_vars
    /\ [](pc = "returned" => out = _format_embedded_json(arg_sql))
    /\ <>(pc = "returned")

\* the loop has ended after substituting an object whose text holds a match
C30_Witness ==
    /\ pc = "returned"
    /\ loc_pretty_end > 0
    /\ \E i \in 1..Len(stmt_parts) : Len(stmt_parts[i]) = 12
    /\ \E i \in 1..Len(stmt_parts) : stmt_parts[i] = <<"{", "a", "}">>

(***************************************************************************)
(* Properties of _format_with_optional_chunks.                             *)
(***************************************************************************)
\* the lines at which a chunk starts: the first line and every flagged line
ChunkStarts(flags) == {i \in 1..Len(flags) : i = 1 \/ flags[i]}

\* the chunk that starts at line i: the lines up to the next start
ChunkFrom(lines, flags, i) ==
    LET later == {j \in ChunkStarts(flags) : j > i}
    IN  SubSeq(lines, i, IF later = {} THEN Len(lines) ELSE Min(later) - 1)

\* the chunks in order, each as its stripped text
ChunkTexts(lines, flags) ==
    [k \in 1..Cardinality(ChunkStarts(flags)) |->
        LET i == CHOOSE i \in ChunkStarts(flags) :
                     Cardinality({j \in ChunkStarts(flags) : j <= i}) = k
        IN  strip(join(<<"\n">>, ChunkFrom(lines, flags, i)))]

NotBlank(text) == strip(text) # <<>>

ChunkedLayout ==
    LET lines == splitlines(arg_sql)
        texts == SelectSeq(ChunkTexts(lines, stmt_rows), NotBlank)
    IN  IF stmt_rows # <<>> /\ Len(stmt_rows) = Len(lines)
        THEN /\ SelectSeq(format_all_calls, NotBlank) = texts
             /\ Len(format_all_calls) = IF texts = <<>> THEN 1 ELSE Len(texts)
             /\ out = join(L_blank_line, [k \in 1..Len(texts) |-> format_all(texts[k], json_checkbox)])
        ELSE /\ format_all_calls = <<arg_sql>>
             /\ out = format_all(arg_sql, json_checkbox)

\* C29: with as many flags as lines a chunk starts at the first line and at
\* every flagged line, every line is in one chunk in its order, each chunk
\* that is not blank is formatted by a format_all call of its own and the
\* results are joined by a blank line; without flags or with another number
\* of flags than lines the whole text is formatted by one format_all call
C29_ChunkAtEveryFlaggedLine == pc = "returned" => ChunkedLayout

\* three lines, the second and the third flagged: the first line is a chunk
\* of its own and three format_all calls were made
C29_Witness ==
    /\ pc = "returned"
    /\ stmt_rows = <<FALSE, TRUE, TRUE>>
    /\ Len(splitlines(arg_sql)) = 3
    /\ Len(format_all_calls) = 3

(***************************************************************************)
(* Properties of format_sql_from_input.                                    *)
(***************************************************************************)
\* the filter text is no regular expression: re.compile answers re.error
InvalidFilter == re_compile(strip(filter_input)).raises = "re.error"

\* a step that is no edit of the user is a call of format_sql_from_input
CallStep == UNCHANGED <<filter_input, input_text, json_checkbox>>

\* a call with an invalid filter shows the error label with the error, makes
\* no format_all call and leaves the output editor as it was
InvalidFilterReported ==
    (CallStep /\ InvalidFilter)
        => /\ error_label_visible'
           /\ startswith(error_label_text', L_Invalid_filter_regex_)
           /\ format_all_calls' = <<>>
           /\ output_text' = output_text

LastCallFailedOnFilter ==
    last_call \in {"ValueError from _apply_filter", "OverflowError from _apply_filter"}

\* C27: with a filter text that is no regular expression format_sql_from_input
\* shows the error in the error label, calls format_all not at all and leaves
\* the text of the output editor; and whatever calls were made, the error
\* label is visible only if the last call failed on the filter
C27_InvalidFilterShownBeforeFormatting ==
    /\ [][InvalidFilterReported]_vars
    /\ [](error_label_visible => LastCallFailedOnFilter)

\* a text was formatted, then the filter was made invalid and the next call
\* showed the error and left the formatted text
C27_Witness ==
    /\ error_label_visible
    /\ last_call = "ValueError from _apply_filter"
    /\ InvalidFilter
    /\ output_text # <<>>

(***************************************************************************)
(* Properties of safe_import.                                              *)
(***************************************************************************)
\* install_requirements is called once at most, after one failed import and
\* before the second; the second import comes after that call only
InstallBetweenTheImports ==
    /\ install_calls' # install_calls /\ install_calls' # 0
           => install_calls = 0 /\ import_attempts = 1 /\ loc_module_name \notin returned_modules
    /\ import_attempts' = 2 /\ import_attempts # 2 => install_calls = 1 /\ import_attempts = 1
    /\ import_attempts' \in {0, import_attempts, import_attempts + 1}

\* a first import that returns ends the call without install_requirements
ReturnedModule ==
    loc_module_name \in returned_modules
        => \/ import_attempts = 1 /\ install_calls = 0
           \/ import_attempts = 2 /\ install_calls = 1

\* a failed retry or a failed installation ends the process with code 1
ExitOnFailure ==
    /\ pc = "retry" /\ sys_modules[loc_module_name] = "missing"
           => pc' = "exited" /\ exit_code' = 1
    /\ pc = "install_requirements" /\ pip_install = "CalledProcessError"
           => pc' = "exited" /\ exit_code' = 1
    /\ pc # "exited"

\* C28: safe_import imports at most twice and calls install_requirements at
\* most once: not at all if the first import returns, once and before the one
\* retry if it fails; if the retry or the installation fails the process exits
\* with code 1 and the module is not returned
C28_OneInstallOneRetry ==
    /\ [](import_attempts <= 2 /\ install_calls <= 1)
    /\ [](ReturnedModule)
    /\ [](exit_code # -1 => exit_code = 1 /\ loc_module_name \notin returned_modules)
    /\ [][InstallBetweenTheImports /\ ExitOnFailure]_vars

\* PyQt5 was there, PyQt5.Qsci was imported at the retry after the one
\* installation
C28_Witness ==
    /\ pc = "returned"
    /\ import_attempts = 2
    /\ install_calls = 1
    /\ returned_modules = {"PyQt5", "PyQt5.Qsci"}

====
